---- MODULE Spec2Model ----
(***************************************************************************)
(* Model of the real-time control pipeline of slideAI:                     *)
(*   - WebSocketService      (frontend/src/services/websocket-service.js)  *)
(*   - SlidesView gesture state machine (frontend/src/components)          *)
(*   - useHandLandmarks on-device detection loop                           *)
(*   - thin-client WebSocketProviderComponent                              *)
(*   - CameraStream, the sender of the landmark messages                   *)
(* Each component has its own specification; the variables of the other    *)
(* components stay at their initial values.                                *)
(***************************************************************************)
EXTENDS Integers, Sequences, FiniteSets, TLC

\* ------------------------------------------------------------------------
\* Bounds of the model
\* ------------------------------------------------------------------------
\* largest maxReconnectAttempts option handed to the constructor
MaxAttemptsOption == 2
\* number of WebSocket objects one service instance may create
MaxSockets == 4
\* number of send() calls
MaxSends == 2

\* last clock reading (ms) of the SlidesView model
MaxTime == 6000
\* pages of the loaded PDF (slides of the deck)
NumSlides == 3

\* largest performance.now() reading of the detection loop model
MaxClock == 2
\* largest video.currentTime of the detection loop model
MaxVideoTime == 1
\* number of requestAnimationFrame callbacks one hook may schedule
MaxFrames == 4
\* number of distinct input streams handed to the hook
NumStreams == 2

\* number of WebSocket objects the thin-client provider may create
MaxProviderSockets == 4

\* number of handlers subscribed to the hooks of one service at a time
MaxHandlers == 2

\* number of calls of subscribeToLandmarks
MaxSubscriptions == 2

\* number of renders of one mounted CameraStream
MaxRenders == 2

\* number of capture intervals the thin-client provider may start
MaxIntervals == 2
\* number of WebSocket objects the provider may create while its frame
\* producer is observed
MaxFrameSockets == 1
\* number of frame messages the capture intervals may send
MaxSentFrames == 2

\* number of handshakes the peer-to-peer provider may start
MaxHandshakes == 2
\* number of calls of the peer-to-peer provider's connectStream
MaxConnectCalls == 2

\* reconnectDelay options handed to the constructor (ms)
DelayOptions == {1000, 3000}

\* ------------------------------------------------------------------------
\* WebSocketService: state
\* ------------------------------------------------------------------------
VARIABLES
    maxReconnectAttempts,   \* this.maxReconnectAttempts (constructor option)
    reconnectDelay,         \* this.reconnectDelay (constructor option)
    autoReconnect,          \* this.autoReconnect (constructor option)
    ws,                     \* this.ws: 0 (null) or the index of a socket
    reconnectAttempts,      \* this.reconnectAttempts
    reconnectTimeout,       \* this.reconnectTimeout: 0 (null) or a timer id
    shouldReconnect,        \* this.shouldReconnect
    sockets,                \* readyState of every WebSocket created so far
    timers,                 \* pending setTimeout callbacks: [id, delay]
    timerCount,             \* timer ids handed out by setTimeout so far
    sendCount,              \* send() calls so far; call n hands message n
    sendResult,             \* what the last send() call returned
    wire,                   \* the messages written to a socket (ws.send)
    episode,                \* observation: reconnects since the last open
    disconnected,           \* observation: disconnect() was the last call
    messageHandlers,        \* this.messageHandlers, in insertion order
    connectionHandlers,     \* this.connectionHandlers, in insertion order
    errorHandlers,          \* this.errorHandlers, in insertion order
    closeHandlers,          \* this.closeHandlers, in insertion order
    unsubscribed,           \* observation: the <<hook, handler>> pair of
                            \* the last unsubscribe function that ran, if
                            \* the handler was not subscribed again since
    received,               \* observation: the payload the last step handed
                            \* to onmessage, "none" if it handed none
    notified,               \* observation: the <<hook, handler>> pairs the
                            \* last step invoked
    escaped,                \* observation: an exception left a callback of
                            \* the last step
    connectionValue         \* observation: the argument of the last call of
                            \* notifyConnection, "none" before the first

VARIABLES
    now,                    \* the last Date.now() reading (ms)
    lastMessage,            \* WebSocketProvider lastMessage: <<>> is null
    effectPending,          \* prediction changed, its effect has not run
    showDialog,             \* SlidesView showDialog
    lastNavigationRef,      \* SlidesView lastNavigationRef.current
    fileURL,                \* SlidesView fileURL is set (preview active)
    loading,                \* load() of the deck is in flight
    deckRef,                \* deckRef.current: "null", "live", "destroyed"
    position,               \* index of the slide the deck shows
    crashed,                \* an effect threw: the tree is unmounted
    lastAction,             \* observation: what the last effect run did
    lastEvent,              \* observation: the last PredictionEvent run
    prevEvent,              \* observation: the PredictionEvent before it
    passedBefore            \* observation: the last earlier PredictionEvent
                            \* that passed the lock gate

slidesVars == <<now, lastMessage, effectPending, showDialog,
                lastNavigationRef, fileURL, loading, deckRef, position,
                crashed, lastAction, lastEvent, prevEvent,
                passedBefore>>

VARIABLES
    handLandmarker,             \* module-level detector: TRUE once created
    handLandmarkerReadyPromise, \* "null", "pending", "resolved", "rejected"
    inputStream,                \* the hook's argument: 0 is null
    videoRef,                   \* videoRef.current is set
    animationIdRef,             \* animationIdRef.current: 0 or a frame id
    frames,                     \* requestAnimationFrame callbacks pending
    frameCount,                 \* frame ids handed out so far
    starters,                   \* .then callbacks waiting for the promise
    lastTimestampMsRef,         \* lastTimestampMsRef.current
    lastVideoTimeRef,           \* lastVideoTimeRef.current
    onLandmarksRef,             \* a subscriber is registered
    lastEmitted,                \* handedness of the last message emitted
    runTimestamps,              \* observation: timestamps passed to
                                \* detectForVideo since the last reset
    mounted,                    \* the hook has been rendered
    creations,                  \* observation: times the initialization
                                \* (HandLandmarker.createFromOptions) started
    iteration,                  \* observation: what the last step did if it
                                \* was a run of processFrame
    clock,                      \* the last performance.now() reading
    detectorLast,               \* observation: the last timestamp handed to
                                \* the detector since it was created
    subscriptions,              \* calls of subscribeToLandmarks so far; call
                                \* k registers callback k
    callback                    \* the callback in onLandmarksRef.current:
                                \* 0 is null

hlVars == <<handLandmarker, handLandmarkerReadyPromise, inputStream, videoRef,
            animationIdRef, frames, frameCount, starters, lastTimestampMsRef,
            lastVideoTimeRef, onLandmarksRef, lastEmitted, runTimestamps,
            mounted, creations, iteration, clock, detectorLast,
            subscriptions, callback>>

VARIABLES
    stream,                 \* provider state stream: 0 is null
    isConnected,            \* provider state isConnected
    reconnectTrigger,       \* provider state reconnectTrigger
    wsRef,                  \* wsRef.current: 0 (null) or a socket index
    reconnectTimeoutRef,    \* reconnectTimeoutRef.current: 0 or a timer id
    reconnectAttemptsRef,   \* reconnectAttemptsRef.current
    shouldReconnectRef,     \* shouldReconnectRef.current
    providerSockets,        \* readyState of every socket the provider made
    providerTimers,         \* pending setTimeout callbacks: [id, delay]
    providerTimerCount,     \* timer ids handed out so far
    effectDeps,             \* <<stream, reconnectTrigger>> of the last run
                            \* of the connection effect
    hasCleanup,             \* that run returned cleanup
    providerEpisode,        \* observation: sockets made since the last open
    frameIntervalRef,       \* frameIntervalRef.current: 0 or an interval id
    intervals,              \* the intervals set and not cleared
    intervalCount,          \* interval ids handed out by setInterval so far
    videoSrc,               \* videoRef.current.srcObject: 0 is no element
                            \* or null
    metadataPending,        \* the video element loads a source and has not
                            \* fired loadedmetadata for it
    captureDeps,            \* <<isConnected, stream>> of the last run of
                            \* the capture effect
    framesSent,             \* observation: frame messages written so far
    failed,                 \* observation: an operation of some tick
                            \* raised an exception
    lastTick                \* observation: what the last step did if it
                            \* was a tick

VARIABLES
    cameraMounted,          \* CameraStream is mounted
    requestId,              \* the variable requestId of every render of
                            \* the mounted CameraStream, in render order
    subscriber,             \* the render whose callback is subscribed to
                            \* the landmarks: 0 is none
    handed                  \* observation: the request_id of the messages
                            \* handed to send() since the last disconnect()

cameraVars == <<cameraMounted, requestId, subscriber, handed>>

VARIABLES
    peerStream,             \* WebRTCProvider: the state stream, 0 is null
    peerIsConnected,        \* the state isConnected
    pcRef,                  \* pcRef.current: the handshake whose
                            \* RTCPeerConnection it holds, 0 is null
    handshakes,             \* the runs of setupWebRTC in the order they
                            \* started, each with its RTCPeerConnection
    peerDeps,               \* the stream the setup effect last ran with
    connectCalls,           \* observation: calls of connectStream so far
    served                  \* observation: connectCalls when the setup
                            \* effect last ran

peerVars == <<peerStream, peerIsConnected, pcRef, handshakes, peerDeps,
              connectCalls, served>>

thinVars == <<stream, isConnected, reconnectTrigger, wsRef,
              reconnectTimeoutRef, reconnectAttemptsRef, shouldReconnectRef,
              providerSockets, providerTimers, providerTimerCount, effectDeps,
              hasCleanup, providerEpisode, frameIntervalRef, intervals,
              intervalCount, videoSrc, metadataPending, captureDeps,
              framesSent, failed, lastTick>>

wsVars == <<maxReconnectAttempts, reconnectDelay, autoReconnect, ws,
            reconnectAttempts, reconnectTimeout, shouldReconnect, sockets,
            timers, timerCount, sendCount, sendResult, wire, episode,
            disconnected, messageHandlers, connectionHandlers, errorHandlers,
            closeHandlers, unsubscribed, received, notified, escaped,
            connectionValue>>

vars == <<wsVars, slidesVars, hlVars, thinVars, cameraVars, peerVars>>

\* what the steps of one component leave alone
NotWS == <<slidesVars, hlVars, thinVars, cameraVars, peerVars>>

NotSlides == <<wsVars, hlVars, thinVars, cameraVars, peerVars>>

NotHL == <<wsVars, slidesVars, thinVars, cameraVars, peerVars>>

NotThin == <<wsVars, slidesVars, hlVars, cameraVars, peerVars>>

NotCamera == <<slidesVars, hlVars, thinVars, peerVars>>

NotPeer == <<wsVars, slidesVars, hlVars, thinVars, cameraVars>>

\* the fields and the environment one handler of the service reads and writes
Service == [ws |-> ws, reconnectAttempts |-> reconnectAttempts,
            reconnectTimeout |-> reconnectTimeout,
            shouldReconnect |-> shouldReconnect,
            sockets |-> sockets, timers |-> timers, timerCount |-> timerCount]

Commit(s) ==
    /\ ws' = s.ws
    /\ reconnectAttempts' = s.reconnectAttempts
    /\ reconnectTimeout' = s.reconnectTimeout
    /\ shouldReconnect' = s.shouldReconnect
    /\ sockets' = s.sockets
    /\ timers' = s.timers
    /\ timerCount' = s.timerCount

\* this.ws?.readyState ?? WebSocket.CLOSED, with "NONE" for a missing socket
ReadyState(s) == IF s.ws = 0 THEN "NONE" ELSE s.sockets[s.ws]

\* connect() without its guard: a new socket whatever the current one
ConnectAlways(s) ==
    [s EXCEPT !.shouldReconnect = autoReconnect,
              !.sockets = Append(s.sockets, "CONNECTING"),
              !.ws = Len(s.sockets) + 1]

\* connect() that also resets reconnectAttempts
ConnectResetsAttempts(s) ==
    IF s.ws # 0 /\ s.sockets[s.ws] \in {"OPEN", "CONNECTING"}
    THEN s
    ELSE [s EXCEPT !.shouldReconnect = autoReconnect,
                   !.reconnectAttempts = 0,
                   !.sockets = Append(s.sockets, "CONNECTING"),
                   !.ws = Len(s.sockets) + 1]

\* connect(): no-op while OPEN or CONNECTING, else a new socket
Connect(s) ==
    IF s.ws # 0 /\ s.sockets[s.ws] \in {"OPEN", "CONNECTING"}
    THEN s
    ELSE [s EXCEPT !.shouldReconnect = autoReconnect,
                   !.sockets = Append(s.sockets, "CONNECTING"),
                   !.ws = Len(s.sockets) + 1]

ConnectCreates(s) == Connect(s).sockets # s.sockets

\* handleReconnect() without the attempt cap
BudgetNeverSpent(s) == FALSE

\* the attempt cap test of handleReconnect, off by one
BudgetSpentOffByOne(s) == s.reconnectAttempts > maxReconnectAttempts

\* handleReconnect(): the attempt cap test
BudgetSpent(s) == s.reconnectAttempts >= maxReconnectAttempts

\* handleReconnect()
HandleReconnect(s) ==
    IF ~s.shouldReconnect THEN s
    ELSE IF BudgetSpent(s) THEN s
    ELSE [s EXCEPT !.reconnectAttempts = @ + 1,
                   !.timerCount = @ + 1,
                   !.reconnectTimeout = s.timerCount + 1,
                   !.timers = @ \cup {[id |-> s.timerCount + 1,
                                       delay |-> reconnectDelay]}]

\* the handlers a caller may subscribe; "bad" throws whenever it is invoked
Handlers == {"good", "bad"}

HookNames == {"message", "connection", "error", "close"}

Throws(handler) == handler = "bad"

\* the set of the hook
HandlersOf(hook) ==
    CASE hook = "message" -> messageHandlers
      [] hook = "connection" -> connectionHandlers
      [] hook = "error" -> errorHandlers
      [] hook = "close" -> closeHandlers

NoDispatch == [invoked |-> {}, escaped |-> FALSE]

\* a dispatcher without the try/catch around the handler call
CaughtNowhere(hook) == FALSE

\* notifyMessage / notifyConnection / notifyError / notifyClose wrap every
\* handler call in try/catch
Caught(hook) == TRUE

\* forEach over the handlers from the i-th on: the handlers invoked, and
\* whether an exception left the dispatcher
RECURSIVE NotifyFrom(_, _, _)
NotifyFrom(hook, hs, i) ==
    IF i > Len(hs) THEN NoDispatch
    ELSE IF Throws(hs[i]) /\ ~Caught(hook)
         THEN [invoked |-> {<<hook, hs[i]>>}, escaped |-> TRUE]
    ELSE LET rest == NotifyFrom(hook, hs, i + 1)
         IN  [rest EXCEPT !.invoked = @ \cup {<<hook, hs[i]>>}]

\* notifyMessage(data), notifyConnection(isConnected), notifyError(error),
\* notifyClose(event)
Notify(hook) == NotifyFrom(hook, HandlersOf(hook), 1)

\* two dispatches in a row: the second runs unless the first threw
Then(a, b) ==
    IF a.escaped THEN a
    ELSE [invoked |-> a.invoked \cup b.invoked, escaped |-> b.escaped]

\* the dispatches of ws.onopen
OpenDispatch == Notify("connection")

\* the dispatches of ws.onclose, which come before handleReconnect()
CloseDispatch == Then(Notify("connection"), Notify("close"))

\* the dispatch of ws.onerror
ErrorDispatch == Notify("error")

\* the payloads a socket may deliver
Payloads == {"json", "garbage"}

\* JSON.parse(event.data) accepting every payload
ParseThrowsNever(payload) == FALSE

\* JSON.parse(event.data) throws
ParseThrows(payload) == payload = "garbage"

\* the dispatch of ws.onmessage
MessageDispatch(payload) ==
    IF ParseThrows(payload) THEN Notify("error") ELSE Notify("message")

\* Set.add / Set.delete on a handler set kept in insertion order
SetAdd(hs, handler) ==
    IF \E i \in DOMAIN hs : hs[i] = handler THEN hs ELSE Append(hs, handler)

\* an unsubscribe function that deletes the oldest handler of the set
SetDeleteOldest(hs, handler) == Tail(hs)

SetDelete(hs, handler) == SelectSeq(hs, LAMBDA x : x # handler)

\* ws.onopen without the reset of reconnectAttempts
OnOpenKeepsAttempts(s) == s

\* ws.onopen
OnOpen(s) == [s EXCEPT !.reconnectAttempts = 0]

\* ws.onclose
OnClose(s) == IF CloseDispatch.escaped THEN s ELSE HandleReconnect(s)

\* disconnect() dropping its socket without closing it
DisconnectLeavesSocket(s) ==
    [s EXCEPT !.shouldReconnect = FALSE,
              !.timers = {t \in @ : t.id # s.reconnectTimeout},
              !.reconnectTimeout = 0,
              !.ws = 0]

\* disconnect()
Disconnect(s) ==
    LET a == [s EXCEPT !.shouldReconnect = FALSE]
        b == IF a.reconnectTimeout # 0
             THEN [a EXCEPT !.timers = {t \in @ : t.id # a.reconnectTimeout},
                            !.reconnectTimeout = 0]
             ELSE a
    IN  IF b.ws # 0
        THEN [b EXCEPT !.sockets[b.ws] =
                           IF @ \in {"CONNECTING", "OPEN"} THEN "CLOSING" ELSE @,
                       !.ws = 0]
        ELSE b

\* send(message): the guard and the serialisation, ignoring readyState
SendWritesAnyState(s, serializable) == s.ws # 0 /\ serializable

\* send(message): TRUE when the payload is written to the socket
SendWrites(s, serializable) ==
    /\ s.ws # 0
    /\ s.sockets[s.ws] = "OPEN"
    /\ serializable

\* ------------------------------------------------------------------------
\* WebSocketService: initial state (after the constructor) and actions
\* ------------------------------------------------------------------------
WSInit ==
    /\ maxReconnectAttempts \in 0..MaxAttemptsOption
    /\ reconnectDelay \in DelayOptions
    /\ autoReconnect \in BOOLEAN
    /\ ws = 0
    /\ reconnectAttempts = 0
    /\ reconnectTimeout = 0
    /\ shouldReconnect = FALSE
    /\ sockets = <<>>
    /\ timers = {}
    /\ timerCount = 0
    /\ sendCount = 0
    /\ sendResult = FALSE
    /\ unsubscribed = {}
    /\ connectionValue = "none"
    /\ wire = {}
    /\ episode = [clean |-> FALSE, attempts |-> 0]
    /\ disconnected = FALSE
    /\ messageHandlers = <<>>
    /\ connectionHandlers = <<>>
    /\ errorHandlers = <<>>
    /\ closeHandlers = <<>>
    /\ received = "none"
    /\ notified = {}
    /\ escaped = FALSE

\* the service of a specification that does not exercise it
WSIdle ==
    /\ maxReconnectAttempts = 0
    /\ reconnectDelay = 0
    /\ autoReconnect = FALSE
    /\ ws = 0
    /\ reconnectAttempts = 0
    /\ reconnectTimeout = 0
    /\ shouldReconnect = FALSE
    /\ sockets = <<>>
    /\ timers = {}
    /\ timerCount = 0
    /\ sendCount = 0
    /\ sendResult = FALSE
    /\ unsubscribed = {}
    /\ connectionValue = "none"
    /\ wire = {}
    /\ episode = [clean |-> FALSE, attempts |-> 0]
    /\ disconnected = FALSE
    /\ messageHandlers = <<>>
    /\ connectionHandlers = <<>>
    /\ errorHandlers = <<>>
    /\ closeHandlers = <<>>
    /\ received = "none"
    /\ notified = {}
    /\ escaped = FALSE

Config == <<maxReconnectAttempts, reconnectDelay, autoReconnect>>

Outbound == <<sendCount, sendResult, wire>>

HandlerSets == <<messageHandlers, connectionHandlers, errorHandlers,
                 closeHandlers, unsubscribed>>

\* what the last step handed to the handlers
Observe(payload, dispatch) ==
    /\ received' = payload
    /\ notified' = dispatch.invoked
    /\ escaped' = dispatch.escaped

\* the caller invokes connect()
ConnectCall ==
    /\ ConnectCreates(Service) => Len(sockets) < MaxSockets
    /\ Commit(Connect(Service))
    /\ episode' = [episode EXCEPT !.clean = FALSE]
    /\ disconnected' = FALSE
    /\ Observe("none", NoDispatch)
    /\ UNCHANGED <<Config, Outbound, HandlerSets>>
    /\ connectionValue' = connectionValue
    /\ UNCHANGED NotWS

\* the caller invokes disconnect()
DisconnectCall ==
    /\ Commit(Disconnect(Service))
    /\ episode' = [episode EXCEPT !.clean = FALSE]
    /\ disconnected' = TRUE
    /\ Observe("none", NoDispatch)
    /\ UNCHANGED <<Config, Outbound, HandlerSets>>
    /\ connectionValue' = connectionValue
    /\ UNCHANGED NotWS

\* the browser opens socket i: CONNECTING -> OPEN, onopen runs
SocketOpen(i) ==
    /\ sockets[i] = "CONNECTING"
    /\ Commit(OnOpen([Service EXCEPT !.sockets[i] = "OPEN"]))
    /\ episode' = [clean |-> /\ timers = {}
                             /\ \A j \in DOMAIN sockets :
                                    j # i => sockets[j] = "CLOSED",
                   attempts |-> 0]
    /\ Observe("none", OpenDispatch)
    /\ UNCHANGED <<Config, Outbound, disconnected, HandlerSets>>
    /\ connectionValue' = "true"
    /\ UNCHANGED NotWS

\* the connection attempt of socket i fails: CONNECTING -> CLOSED,
\* onerror and then onclose run
SocketFail(i) ==
    /\ sockets[i] = "CONNECTING"
    /\ Commit(OnClose([Service EXCEPT !.sockets[i] = "CLOSED"]))
    /\ Observe("none", [invoked |-> ErrorDispatch.invoked
                                        \cup CloseDispatch.invoked,
                        escaped |-> ErrorDispatch.escaped
                                        \/ CloseDispatch.escaped])
    /\ UNCHANGED <<Config, Outbound, episode, disconnected, HandlerSets>>
    /\ connectionValue' = "false"
    /\ UNCHANGED NotWS

\* the open connection of socket i drops: OPEN -> CLOSED, onclose runs
SocketDrop(i) ==
    /\ sockets[i] = "OPEN"
    /\ Commit(OnClose([Service EXCEPT !.sockets[i] = "CLOSED"]))
    /\ Observe("none", CloseDispatch)
    /\ UNCHANGED <<Config, Outbound, episode, disconnected, HandlerSets>>
    /\ connectionValue' = "false"
    /\ UNCHANGED NotWS

\* the peer starts the closing handshake of socket i: OPEN -> CLOSING
SocketClosing(i) ==
    /\ sockets[i] = "OPEN"
    /\ sockets' = [sockets EXCEPT ![i] = "CLOSING"]
    /\ UNCHANGED <<Config, ws, reconnectAttempts, reconnectTimeout,
                   shouldReconnect, timers, timerCount, Outbound,
                   episode, disconnected, HandlerSets>>
    /\ Observe("none", NoDispatch)
    /\ connectionValue' = connectionValue
    /\ UNCHANGED NotWS

\* the closing handshake of socket i ends: CLOSING -> CLOSED, onclose runs
SocketClosed(i) ==
    /\ sockets[i] = "CLOSING"
    /\ Commit(OnClose([Service EXCEPT !.sockets[i] = "CLOSED"]))
    /\ Observe("none", CloseDispatch)
    /\ UNCHANGED <<Config, Outbound, episode, disconnected, HandlerSets>>
    /\ connectionValue' = "false"
    /\ UNCHANGED NotWS

\* the reconnect timer t fires: the callback calls connect()
ReconnectTimerFire(t) ==
    LET s == [Service EXCEPT !.timers = @ \ {t}]
    IN  /\ ConnectCreates(s) => Len(sockets) < MaxSockets
        /\ Commit(Connect(s))
        /\ episode' = [episode EXCEPT !.attempts =
                           IF ConnectCreates(s) THEN @ + 1 ELSE @]
        /\ Observe("none", NoDispatch)
        /\ UNCHANGED <<Config, Outbound, disconnected, HandlerSets>>
        /\ connectionValue' = connectionValue
        /\ UNCHANGED NotWS

\* the caller invokes send(message); the message is the next message id
SendCall(serializable) ==
    /\ sendCount < MaxSends
    /\ sendCount' = sendCount + 1
    /\ sendResult' = SendWrites(Service, serializable)
    /\ wire' = IF SendWrites(Service, serializable)
               THEN wire \cup {sendCount + 1} ELSE wire
    /\ Observe("none", IF ReadyState(Service) = "OPEN" /\ ~serializable
                        THEN ErrorDispatch ELSE NoDispatch)
    /\ UNCHANGED <<Config, ws, reconnectAttempts, reconnectTimeout,
                   shouldReconnect, sockets, timers, timerCount, episode,
                   disconnected, HandlerSets>>
    /\ connectionValue' = connectionValue
    /\ UNCHANGED NotWS

\* socket i delivers a payload: ws.onmessage runs
Inbound(i, payload) ==
    /\ sockets[i] = "OPEN"
    /\ Observe(payload, MessageDispatch(payload))
    /\ UNCHANGED <<Config, ws, reconnectAttempts, reconnectTimeout,
                   shouldReconnect, sockets, timers, timerCount, Outbound,
                   episode, disconnected, HandlerSets>>
    /\ connectionValue' = connectionValue
    /\ UNCHANGED NotWS

\* onMessage / onConnectionChange / onError / onClose (handler)
AddHandler(hook, handler) ==
    /\ Len(messageHandlers) + Len(connectionHandlers) + Len(errorHandlers)
           + Len(closeHandlers) < MaxHandlers
    /\ messageHandlers' = IF hook = "message"
                          THEN SetAdd(messageHandlers, handler)
                          ELSE messageHandlers
    /\ connectionHandlers' = IF hook = "connection"
                             THEN SetAdd(connectionHandlers, handler)
                             ELSE connectionHandlers
    /\ errorHandlers' = IF hook = "error"
                        THEN SetAdd(errorHandlers, handler)
                        ELSE errorHandlers
    /\ closeHandlers' = IF hook = "close"
                        THEN SetAdd(closeHandlers, handler)
                        ELSE closeHandlers
    /\ unsubscribed' = unsubscribed \ {<<hook, handler>>}
    /\ Observe("none", NoDispatch)
    /\ UNCHANGED <<Config, ws, reconnectAttempts, reconnectTimeout,
                   shouldReconnect, sockets, timers, timerCount, Outbound,
                   episode, disconnected>>
    /\ connectionValue' = connectionValue
    /\ UNCHANGED NotWS

\* the unsubscribe function onMessage / onConnectionChange / onError /
\* onClose returned
DeleteHandler(hook, handler) ==
    /\ \E i \in DOMAIN HandlersOf(hook) : HandlersOf(hook)[i] = handler
    /\ messageHandlers' = IF hook = "message"
                          THEN SetDelete(messageHandlers, handler)
                          ELSE messageHandlers
    /\ connectionHandlers' = IF hook = "connection"
                             THEN SetDelete(connectionHandlers, handler)
                             ELSE connectionHandlers
    /\ errorHandlers' = IF hook = "error"
                        THEN SetDelete(errorHandlers, handler)
                        ELSE errorHandlers
    /\ closeHandlers' = IF hook = "close"
                        THEN SetDelete(closeHandlers, handler)
                        ELSE closeHandlers
    /\ unsubscribed' = {<<hook, handler>>}
    /\ Observe("none", NoDispatch)
    /\ UNCHANGED <<Config, ws, reconnectAttempts, reconnectTimeout,
                   shouldReconnect, sockets, timers, timerCount, Outbound,
                   episode, disconnected>>
    /\ connectionValue' = connectionValue
    /\ UNCHANGED NotWS

WSStep ==
    \/ ConnectCall
    \/ DisconnectCall
    \/ \E i \in DOMAIN sockets : SocketOpen(i)
    \/ \E i \in DOMAIN sockets : SocketFail(i)
    \/ \E i \in DOMAIN sockets : SocketDrop(i)
    \/ \E i \in DOMAIN sockets : SocketClosing(i)
    \/ \E i \in DOMAIN sockets : SocketClosed(i)
    \/ \E t \in timers : ReconnectTimerFire(t)
    \/ \E serializable \in BOOLEAN : SendCall(serializable)

\* a service with subscribers and inbound traffic
HooksStep ==
    \/ ConnectCall
    \/ \E i \in DOMAIN sockets : SocketOpen(i)
    \/ \E i \in DOMAIN sockets : SocketFail(i)
    \/ \E i \in DOMAIN sockets : SocketDrop(i)
    \/ \E t \in timers : ReconnectTimerFire(t)
    \/ \E i \in DOMAIN sockets, payload \in Payloads : Inbound(i, payload)
    \/ \E hook \in HookNames, handler \in Handlers : AddHandler(hook, handler)
    \/ \E hook \in HookNames, handler \in Handlers :
           DeleteHandler(hook, handler)

\* ------------------------------------------------------------------------
\* SlidesView: gesture state machine
\* ------------------------------------------------------------------------
LOCK_DURATION == 1750

\* CONFIDENCE_THRESHOLD = 0.9, in hundredths
CONFIDENCE_THRESHOLD == 90

\* a prediction without a confidence field (undefined)
Missing == -1

GESTURE_CONFIG ==
    [NAVIGATE_NEXT   |-> [gesture |-> "two_up_inverted", direction |-> "Left"],
     NAVIGATE_PREV   |-> [gesture |-> "two_up_inverted", direction |-> "Right"],
     OPEN_EXIT_POPUP |-> [gesture |-> "stop", direction |-> ""],
     CONFIRM_EXIT    |-> [gesture |-> "like", direction |-> ""]]

\* the inbound messages of the model (confidence in hundredths)
Predictions ==
    { [predicted_class |-> c, direction |-> d, confidence |-> k] :
        c \in {"two_up_inverted"}, d \in {"Left", "Right", ""},
        k \in {50, CONFIDENCE_THRESHOLD, Missing} }
    \cup
    { [predicted_class |-> c, direction |-> "", confidence |-> k] :
        c \in {"stop", "like", "empty", "fist"},
        k \in {50, CONFIDENCE_THRESHOLD, Missing} }
    \cup
    { [predicted_class |-> "stop", direction |-> "Left",
       confidence |-> CONFIDENCE_THRESHOLD] }

\* elapsed time between two Date.now() readings of the model (ms)
ClockSteps == {0, 500, 1250, LOCK_DURATION}

NoEvent == [some |-> FALSE, at |-> 0, passed |-> FALSE]

\* matchesGesture comparing the class only
matchesGestureByClass(p, config) == p.predicted_class = config.gesture

\* matchesGesture(prediction, config)
matchesGesture(p, config) ==
    /\ p.predicted_class = config.gesture
    /\ (config.direction # "" => p.direction = config.direction)

\* the lock gate with a window ten times too short
LockedShort(t, last) == t - last < 175

\* the lock gate: now - lastNavigationRef.current < LOCK_DURATION
Locked(t, last) == t - last < LOCK_DURATION

\* the confidence gate left out
LowConfidenceNever(m) == FALSE

\* the confidence gate: prediction?.confidence < CONFIDENCE_THRESHOLD,
\* false for null and for a missing confidence
LowConfidence(m) ==
    /\ m # <<>>
    /\ m[1].confidence # Missing
    /\ m[1].confidence < CONFIDENCE_THRESHOLD

\* exitPreview(): slidesRef.current is null when no preview is rendered
ExitPreview(v) ==
    [v EXCEPT !.fileURL = FALSE,
              !.loading = FALSE,
              !.deckRef = IF v.fileURL /\ @ = "live" THEN "destroyed" ELSE @,
              !.crashed = ~v.fileURL]

\* deck.next() / deck.prev() of Reveal
DeckNext(v) ==
    IF v.deckRef = "live" /\ v.position < NumSlides - 1
    THEN [v EXCEPT !.position = @ + 1] ELSE v

DeckPrev(v) ==
    IF v.deckRef = "live" /\ v.position > 0
    THEN [v EXCEPT !.position = @ - 1] ELSE v

\* the dialog branch without its return: falls through to the navigation
DialogBranchFallsThrough(v) == FALSE

\* "if (showDialog) { ... return }": the dialog branch is taken
DialogBranch(v) == v.showDialog

\* the navigation branch of the prediction effect
Navigate(v, m, isReady) ==
    IF v.deckRef = "null" \/ m = <<>> THEN v
    ELSE IF ~isReady THEN [v EXCEPT !.lastAction = "notReady"]
    ELSE IF matchesGesture(m[1], GESTURE_CONFIG.NAVIGATE_NEXT)
         THEN [DeckNext(v) EXCEPT !.lastAction = "next"]
    ELSE IF matchesGesture(m[1], GESTURE_CONFIG.NAVIGATE_PREV)
         THEN [DeckPrev(v) EXCEPT !.lastAction = "prev"]
    ELSE IF matchesGesture(m[1], GESTURE_CONFIG.OPEN_EXIT_POPUP)
         THEN [v EXCEPT !.showDialog = TRUE, !.lastAction = "openDialog"]
    ELSE v

\* the dialog branch of the prediction effect
Dialog(v, m) ==
    IF m = <<>> THEN [v EXCEPT !.crashed = TRUE]
    ELSE IF matchesGesture(m[1], GESTURE_CONFIG.CONFIRM_EXIT)
         THEN [ExitPreview([v EXCEPT !.showDialog = FALSE])
                   EXCEPT !.lastAction = "confirmExit"]
    ELSE IF matchesGesture(m[1], GESTURE_CONFIG.OPEN_EXIT_POPUP)
         THEN [v EXCEPT !.showDialog = FALSE, !.lastAction = "closeDialog"]
    ELSE v

\* lastNavigationRef.current = now, moved behind the confidence gate
StampUnlessLow(v, m, t) ==
    IF LowConfidence(m) THEN v ELSE [v EXCEPT !.lastNavigationRef = t]

\* lastNavigationRef.current = now, before the confidence gate
Stamp(v, m, t) == [v EXCEPT !.lastNavigationRef = t]

\* the prediction effect, run at clock reading t; isReady is what
\* deckRef.current.isReady() answers
Effect(v, m, t, isReady) ==
    LET w == [v EXCEPT !.lastAction = "none"]
    IN  IF Locked(t, w.lastNavigationRef) THEN w
        ELSE LET x == Stamp(w, m, t)
             IN  IF LowConfidence(m) THEN x
                 ELSE IF DialogBranch(x) THEN Dialog(x, m)
                 ELSE Navigate(x, m, isReady)

View == [showDialog |-> showDialog, lastNavigationRef |-> lastNavigationRef,
         fileURL |-> fileURL, loading |-> loading, deckRef |-> deckRef,
         position |-> position, crashed |-> crashed,
         lastAction |-> lastAction]

CommitView(v) ==
    /\ showDialog' = v.showDialog
    /\ lastNavigationRef' = v.lastNavigationRef
    /\ fileURL' = v.fileURL
    /\ loading' = v.loading
    /\ deckRef' = v.deckRef
    /\ position' = v.position
    /\ crashed' = v.crashed
    /\ lastAction' = v.lastAction

Events == <<lastEvent, prevEvent, passedBefore>>

\* the component after its first render, before its effects have run
SlidesMounted ==
    /\ now = LOCK_DURATION
    /\ lastMessage = <<>>
    /\ effectPending = TRUE
    /\ showDialog = FALSE
    /\ lastNavigationRef = 0
    /\ fileURL = FALSE
    /\ loading = FALSE
    /\ deckRef = "null"
    /\ position = 0
    /\ crashed = FALSE
    /\ lastAction = "none"
    /\ lastEvent = NoEvent
    /\ prevEvent = NoEvent
    /\ passedBefore = NoEvent

\* the view of a specification that does not exercise it
SlidesIdle ==
    /\ now = 0
    /\ lastMessage = <<>>
    /\ effectPending = FALSE
    /\ showDialog = FALSE
    /\ lastNavigationRef = 0
    /\ fileURL = FALSE
    /\ loading = FALSE
    /\ deckRef = "null"
    /\ position = 0
    /\ crashed = FALSE
    /\ lastAction = "none"
    /\ lastEvent = NoEvent
    /\ prevEvent = NoEvent
    /\ passedBefore = NoEvent

\* WebSocketProvider: service.onMessage((data) => setLastMessage(data))
OnMessage(data) ==
    /\ ~crashed
    /\ lastMessage' = <<data>>
    /\ effectPending' = TRUE
    /\ UNCHANGED <<now, showDialog, lastNavigationRef, fileURL, loading,
                   deckRef, position, crashed, lastAction, Events>>
    /\ UNCHANGED NotSlides

\* useEffect(..., [prediction]) runs for the rendered prediction
PredictionEffect(t, isReady) ==
    /\ ~crashed
    /\ effectPending
    /\ t <= MaxTime
    /\ isReady \in (IF deckRef = "live" THEN {TRUE} ELSE BOOLEAN)
    /\ now' = t
    /\ effectPending' = FALSE
    /\ CommitView(Effect(View, lastMessage, t, isReady))
    /\ IF lastMessage # <<>>
       THEN /\ lastEvent' = [some |-> TRUE, at |-> t,
                             passed |-> lastNavigationRef' # lastNavigationRef]
            /\ prevEvent' = lastEvent
            /\ passedBefore' = IF lastEvent.passed
                               THEN lastEvent ELSE passedBefore
       ELSE UNCHANGED Events
    /\ UNCHANGED lastMessage
    /\ UNCHANGED NotSlides

\* onFileChange: a PDF is picked
OnFileChange ==
    /\ ~crashed
    /\ ~fileURL
    /\ fileURL' = TRUE
    /\ loading' = TRUE
    /\ UNCHANGED <<now, lastMessage, effectPending, showDialog,
                   lastNavigationRef, deckRef, position, crashed, lastAction,
                   Events>>
    /\ UNCHANGED NotSlides

\* load() finishes: deckRef.current = deck
LoadDone ==
    /\ ~crashed
    /\ loading
    /\ loading' = FALSE
    /\ deckRef' = "live"
    /\ position' = 0
    /\ UNCHANGED <<now, lastMessage, effectPending, showDialog,
                   lastNavigationRef, fileURL, crashed, lastAction, Events>>
    /\ UNCHANGED NotSlides

\* the Exit Preview button
ExitPreviewClick ==
    /\ ~crashed
    /\ fileURL
    /\ CommitView([ExitPreview(View) EXCEPT !.lastAction = lastAction])
    /\ UNCHANGED <<now, lastMessage, effectPending, Events>>
    /\ UNCHANGED NotSlides

SlidesStep ==
    \/ \E data \in Predictions : OnMessage(data)
    \/ \E d \in ClockSteps, isReady \in BOOLEAN :
           PredictionEffect(now + d, isReady)
    \/ OnFileChange
    \/ LoadDone
    \/ ExitPreviewClick

\* ------------------------------------------------------------------------
\* useHandLandmarks: on-device detection loop
\* ------------------------------------------------------------------------

\* the timestamp handed to detectForVideo, without the last + 1 correction
DetectorTimestampRaw(timestampMs, last) == timestampMs

\* the timestamp handed to detectForVideo for the clock reading timestampMs
DetectorTimestamp(timestampMs, last) ==
    IF timestampMs <= last THEN last + 1 ELSE timestampMs

\* the outcomes of detectForVideo: it throws, it finds no hand, or it finds
\* a hand with the category name Left, Right or another one
Detections == {"throws", "none", "Left", "Right", "Unknown"}

\* the step was no run of processFrame
NoIteration == [some |-> FALSE, ready |-> FALSE, fresh |-> FALSE,
                result |-> "skipped", emitted |-> "none", threw |-> FALSE]

\* the handedness passed on as the detector names it
FlipNothing(handedness) == handedness

\* the handedness correction
Flip(handedness) == IF handedness = "Left" THEN "Right" ELSE "Left"

Hook == [animationIdRef |-> animationIdRef, frames |-> frames,
         frameCount |-> frameCount, videoRef |-> videoRef,
         lastTimestampMsRef |-> lastTimestampMsRef,
         lastVideoTimeRef |-> lastVideoTimeRef,
         lastEmitted |-> lastEmitted, runTimestamps |-> runTimestamps,
         starters |-> starters,
         handLandmarkerReadyPromise |-> handLandmarkerReadyPromise,
         creations |-> creations, iteration |-> NoIteration,
         clock |-> clock, detectorLast |-> detectorLast]

CommitHook(h) ==
    /\ animationIdRef' = h.animationIdRef
    /\ frames' = h.frames
    /\ frameCount' = h.frameCount
    /\ videoRef' = h.videoRef
    /\ lastTimestampMsRef' = h.lastTimestampMsRef
    /\ lastVideoTimeRef' = h.lastVideoTimeRef
    /\ lastEmitted' = h.lastEmitted
    /\ runTimestamps' = h.runTimestamps
    /\ starters' = h.starters
    /\ handLandmarkerReadyPromise' = h.handLandmarkerReadyPromise
    /\ creations' = h.creations
    /\ iteration' = h.iteration
    /\ clock' = h.clock
    /\ detectorLast' = h.detectorLast

\* animationIdRef.current = requestAnimationFrame(processFrame)
RequestFrame(h) ==
    [h EXCEPT !.frameCount = @ + 1,
              !.frames = @ \cup {h.frameCount + 1},
              !.animationIdRef = h.frameCount + 1]

\* if (animationIdRef.current) cancelAnimationFrame(animationIdRef.current)
CancelFrame(h) ==
    IF h.animationIdRef # 0
    THEN [h EXCEPT !.frames = @ \ {h.animationIdRef}] ELSE h

\* the cleanups of both effects; the first one exists only for a stream
Cleanup(h, hadStream) ==
    IF hadStream
    THEN CancelFrame([CancelFrame(h) EXCEPT !.videoRef = FALSE])
    ELSE CancelFrame(h)

\* the .then callback of initHandLandmarker()
StartLoop(h) == RequestFrame(h)

\* initHandLandmarker() without the test of the stored promise
InitHandLandmarkerAgain(h) ==
    [h EXCEPT !.handLandmarkerReadyPromise = "pending",
              !.creations = @ + 1]

\* initHandLandmarker(): the initialization starts unless a promise is
\* stored; the stored promise is returned
InitHandLandmarker(h) ==
    IF h.handLandmarkerReadyPromise = "null"
    THEN [h EXCEPT !.handLandmarkerReadyPromise = "pending",
                   !.creations = @ + 1]
    ELSE h

\* the bodies of both effects for the stream s
RunEffects(h, s) ==
    LET a == InitHandLandmarker(
                 [h EXCEPT !.videoRef = IF s # 0 THEN TRUE ELSE @,
                           !.lastTimestampMsRef = -1,
                           !.lastVideoTimeRef = -1,
                           !.runTimestamps = <<>>])
    IN  IF a.handLandmarkerReadyPromise = "resolved" THEN StartLoop(a)
        ELSE IF a.handLandmarkerReadyPromise = "pending"
             THEN [a EXCEPT !.starters = @ + 1]
        ELSE a

\* the not-ready test left out
NotReadyNever(video, ready, detector) == FALSE

\* !video || video.readyState < 2 || !handLandmarker, and the test of the
\* video dimensions; ready stands for readyState >= 2 with dimensions
NotReady(video, ready, detector) == ~video \/ ~ready \/ ~detector

\* the frame dedup left out
SamePositionNever(currentTime, last) == FALSE

\* video.currentTime === lastVideoTimeRef.current
SamePosition(currentTime, last) == currentTime = last

\* the emission test without the test of the landmarks
EmitsWithoutHands(hands, sub) == sub

\* results.landmarks && results.landmarks.length > 0 && onLandmarksRef.current
Emits(hands, sub) == hands # "none" /\ sub

\* processFrame; an exception of detectForVideo or of the subscriber leaves
\* the callback before the last requestAnimationFrame
ProcessFrameBody(h, ready, currentTime, timestampMs, hands, detector, sub, subThrows) ==
    LET it == [NoIteration EXCEPT
                   !.some = TRUE,
                   !.ready = h.videoRef /\ ready /\ detector,
                   !.fresh = currentTime # h.lastVideoTimeRef]
    IN  IF NotReady(h.videoRef, ready, detector)
        THEN RequestFrame([h EXCEPT !.iteration = it])
        ELSE IF SamePosition(currentTime, h.lastVideoTimeRef)
        THEN RequestFrame([h EXCEPT !.iteration = it])
        ELSE LET ts == DetectorTimestamp(timestampMs, h.lastTimestampMsRef)
                 a == [h EXCEPT !.lastVideoTimeRef = currentTime,
                                !.lastTimestampMsRef = ts,
                                !.runTimestamps = Append(@, ts),
                                !.clock = timestampMs,
                                !.detectorLast = ts,
                                !.iteration = [it EXCEPT !.result = hands]]
             IN  IF hands = "throws"
                 THEN [a EXCEPT !.iteration.threw = TRUE]
                 ELSE IF Emits(hands, sub)
                 THEN LET b == [a EXCEPT !.lastEmitted = Flip(hands),
                                         !.iteration.emitted = Flip(hands),
                                         !.iteration.threw = subThrows]
                      IN  IF subThrows THEN b ELSE RequestFrame(b)
                 ELSE RequestFrame(a)

\* the module is loaded and the hook has not been rendered yet
HLLoaded ==
    /\ handLandmarker = FALSE
    /\ handLandmarkerReadyPromise = "null"
    /\ inputStream = 0
    /\ videoRef = FALSE
    /\ animationIdRef = 0
    /\ frames = {}
    /\ frameCount = 0
    /\ starters = 0
    /\ lastTimestampMsRef = -1
    /\ lastVideoTimeRef = -1
    /\ onLandmarksRef = FALSE
    /\ lastEmitted = "none"
    /\ runTimestamps = <<>>
    /\ mounted = FALSE
    /\ creations = 0
    /\ iteration = NoIteration
    /\ clock = 0
    /\ detectorLast = -1
    /\ subscriptions = 0
    /\ callback = 0

\* the hook of a specification that does not exercise it
HLIdle ==
    /\ handLandmarker = FALSE
    /\ handLandmarkerReadyPromise = "null"
    /\ inputStream = 0
    /\ videoRef = FALSE
    /\ animationIdRef = 0
    /\ frames = {}
    /\ frameCount = 0
    /\ starters = 0
    /\ lastTimestampMsRef = -1
    /\ lastVideoTimeRef = -1
    /\ onLandmarksRef = FALSE
    /\ lastEmitted = "none"
    /\ runTimestamps = <<>>
    /\ mounted = FALSE
    /\ creations = 0
    /\ iteration = NoIteration
    /\ clock = 0
    /\ detectorLast = -1
    /\ subscriptions = 0
    /\ callback = 0

\* the first render of the hook, with the input stream s: both effects run
Mount(s) ==
    /\ ~mounted
    /\ mounted' = TRUE
    /\ CommitHook(RunEffects(Hook, s))
    /\ inputStream' = s
    /\ UNCHANGED <<handLandmarker, onLandmarksRef, subscriptions, callback>>
    /\ UNCHANGED NotHL

\* another instance of the hook calls initHandLandmarker() in its effect
OtherInstanceInit ==
    /\ CommitHook(InitHandLandmarker(Hook))
    /\ UNCHANGED <<handLandmarker, inputStream, onLandmarksRef, mounted,
                   subscriptions, callback>>
    /\ UNCHANGED NotHL

\* the hook is rendered with another input stream: cleanups, then effects
InputStreamChange(s) ==
    /\ mounted
    /\ s # inputStream
    /\ LET h == RunEffects(Cleanup(Hook, inputStream # 0), s)
       IN  /\ h.frameCount + h.starters <= MaxFrames
           /\ CommitHook(h)
    /\ inputStream' = s
    /\ UNCHANGED <<handLandmarker, onLandmarksRef, mounted, subscriptions,
                   callback>>
    /\ UNCHANGED NotHL

RECURSIVE StartAll(_, _)
StartAll(h, n) == IF n = 0 THEN h ELSE StartAll(StartLoop(h), n - 1)

\* the initialization promise resolves: every waiting .then callback runs
InitResolved ==
    /\ handLandmarkerReadyPromise = "pending"
    /\ LET h == StartAll([Hook EXCEPT !.handLandmarkerReadyPromise = "resolved",
                                      !.starters = 0], starters)
       IN  /\ h.frameCount <= MaxFrames
           /\ CommitHook(h)
    /\ handLandmarker' = TRUE
    /\ UNCHANGED <<inputStream, onLandmarksRef, mounted, subscriptions,
                   callback>>
    /\ UNCHANGED NotHL

\* the initialization promise rejects: the .catch callbacks run
InitRejected ==
    /\ handLandmarkerReadyPromise = "pending"
    /\ CommitHook([Hook EXCEPT !.handLandmarkerReadyPromise = "rejected",
                               !.starters = 0])
    /\ UNCHANGED <<handLandmarker, inputStream, onLandmarksRef, mounted,
                   subscriptions, callback>>
    /\ UNCHANGED NotHL

\* the browser runs the scheduled callback f; performance.now() never
\* reads less than it did before
ProcessFrame(f, ready, currentTime, timestampMs, hands, subThrows) ==
    /\ f \in frames
    /\ frameCount < MaxFrames
    /\ timestampMs >= clock
    /\ CommitHook(ProcessFrameBody([Hook EXCEPT !.frames = @ \ {f}], ready,
                                   currentTime, timestampMs, hands,
                                   handLandmarker, onLandmarksRef,
                                   subThrows))
    /\ UNCHANGED <<handLandmarker, inputStream, onLandmarksRef, mounted,
                   subscriptions, callback>>
    /\ UNCHANGED NotHL

\* the function subscribeToLandmarks returned for callback k: the callback
\* in the ref after it ran, whatever callback registered was in it
UnsubscribeBody(registered, k) == 0

\* subscribeToLandmarks(callback): the callback replaces the registered one
Subscribe ==
    /\ subscriptions < MaxSubscriptions
    /\ subscriptions' = subscriptions + 1
    /\ callback' = subscriptions + 1
    /\ onLandmarksRef' = TRUE
    /\ UNCHANGED <<handLandmarker, handLandmarkerReadyPromise, inputStream,
                   videoRef, animationIdRef, frames, frameCount, starters,
                   lastTimestampMsRef, lastVideoTimeRef, lastEmitted,
                   runTimestamps, mounted, creations, clock, detectorLast>>
    /\ iteration' = NoIteration
    /\ UNCHANGED NotHL

\* the function subscribeToLandmarks returned for callback k
Unsubscribe(k) ==
    /\ callback' = UnsubscribeBody(callback, k)
    /\ onLandmarksRef' = (callback' # 0)
    /\ UNCHANGED <<handLandmarker, handLandmarkerReadyPromise, inputStream,
                   videoRef, animationIdRef, frames, frameCount, starters,
                   lastTimestampMsRef, lastVideoTimeRef, lastEmitted,
                   runTimestamps, mounted, creations, clock, detectorLast,
                   subscriptions>>
    /\ iteration' = NoIteration
    /\ UNCHANGED NotHL

HLStep ==
    \/ \E s \in 0..NumStreams : Mount(s)
    \/ OtherInstanceInit
    \/ \E s \in 0..NumStreams : InputStreamChange(s)
    \/ InitResolved
    \/ InitRejected
    \/ \E f \in frames, ready \in BOOLEAN, currentTime \in 0..MaxVideoTime,
          timestampMs \in 0..MaxClock, hands \in Detections,
          subThrows \in BOOLEAN :
           ProcessFrame(f, ready, currentTime, timestampMs, hands, subThrows)
    \/ Subscribe
    \/ \E k \in 1..subscriptions : Unsubscribe(k)

\* the hook with a detector and a subscriber that never throw
LiveStep ==
    \/ \E s \in 0..NumStreams : Mount(s)
    \/ OtherInstanceInit
    \/ \E s \in 0..NumStreams : InputStreamChange(s)
    \/ InitResolved
    \/ InitRejected
    \/ \E f \in frames, ready \in BOOLEAN, currentTime \in 0..MaxVideoTime,
          timestampMs \in 0..MaxClock, hands \in Detections \ {"throws"} :
           ProcessFrame(f, ready, currentTime, timestampMs, hands, FALSE)
    \/ Subscribe
    \/ \E k \in 1..subscriptions : Unsubscribe(k)

\* the browser runs a scheduled callback while the video is ready and its
\* playback position has advanced
ReadyIteration ==
    \E f \in frames, currentTime \in 0..MaxVideoTime,
       timestampMs \in 0..MaxClock, hands \in Detections \ {"throws"} :
        /\ currentTime # lastVideoTimeRef
        /\ ProcessFrame(f, TRUE, currentTime, timestampMs, hands, FALSE)

\* ------------------------------------------------------------------------
\* Thin-client WebSocketProviderComponent
\* ------------------------------------------------------------------------
MAX_RECONNECT_ATTEMPTS == 3

RECONNECT_DELAY == 2000

Provider == [stream |-> stream, isConnected |-> isConnected,
             reconnectTrigger |-> reconnectTrigger, wsRef |-> wsRef,
             reconnectTimeoutRef |-> reconnectTimeoutRef,
             reconnectAttemptsRef |-> reconnectAttemptsRef,
             shouldReconnectRef |-> shouldReconnectRef,
             sockets |-> providerSockets, timers |-> providerTimers,
             timerCount |-> providerTimerCount, hasCleanup |-> hasCleanup,
             frameIntervalRef |-> frameIntervalRef, intervals |-> intervals,
             intervalCount |-> intervalCount, videoSrc |-> videoSrc,
             metadataPending |-> metadataPending]

CommitProvider(q) ==
    /\ stream' = q.stream
    /\ isConnected' = q.isConnected
    /\ reconnectTrigger' = q.reconnectTrigger
    /\ wsRef' = q.wsRef
    /\ reconnectTimeoutRef' = q.reconnectTimeoutRef
    /\ reconnectAttemptsRef' = q.reconnectAttemptsRef
    /\ shouldReconnectRef' = q.shouldReconnectRef
    /\ providerSockets' = q.sockets
    /\ providerTimers' = q.timers
    /\ providerTimerCount' = q.timerCount
    /\ hasCleanup' = q.hasCleanup
    /\ frameIntervalRef' = q.frameIntervalRef
    /\ intervals' = q.intervals
    /\ intervalCount' = q.intervalCount
    /\ videoSrc' = q.videoSrc
    /\ metadataPending' = q.metadataPending

\* what the steps of the connection life cycle leave alone
FrameObs == <<captureDeps, framesSent, failed>>

\* cleanup()
ProviderCleanup(q) ==
    LET a == [q EXCEPT !.shouldReconnectRef = FALSE]
        f == IF a.frameIntervalRef # 0
             THEN [a EXCEPT !.intervals = @ \ {a.frameIntervalRef},
                            !.frameIntervalRef = 0]
             ELSE a
        b == IF f.reconnectTimeoutRef # 0
             THEN [f EXCEPT !.timers = {t \in @ : t.id # f.reconnectTimeoutRef},
                            !.reconnectTimeoutRef = 0]
             ELSE f
        c == IF b.wsRef # 0
             THEN [b EXCEPT !.sockets[b.wsRef] =
                                IF @ \in {"CONNECTING", "OPEN"}
                                THEN "CLOSING" ELSE @,
                            !.wsRef = 0]
             ELSE b
    IN  [c EXCEPT !.videoSrc = 0, !.metadataPending = FALSE]

\* the body of the connection effect (after the previous run's cleanup)
ConnectionEffectBody(q) ==
    IF q.stream = 0
    THEN [ProviderCleanup(q) EXCEPT !.hasCleanup = FALSE]
    ELSE IF q.wsRef # 0 /\ q.sockets[q.wsRef] \in {"OPEN", "CONNECTING"}
    THEN [q EXCEPT !.hasCleanup = FALSE]
    ELSE [q EXCEPT !.sockets = Append(@, "CONNECTING"),
                   !.wsRef = Len(q.sockets) + 1,
                   !.hasCleanup = TRUE]

\* React runs the previous cleanup, if any, and then the effect
ConnectionEffectRun(q) ==
    ConnectionEffectBody(IF q.hasCleanup THEN ProviderCleanup(q) ELSE q)

\* ws.onopen
ProviderOnOpen(q) ==
    [q EXCEPT !.isConnected = TRUE, !.reconnectAttemptsRef = 0]

\* ws.onclose
ProviderOnClose(q) ==
    LET a == [q EXCEPT !.isConnected = FALSE]
    IN  IF a.shouldReconnectRef
           /\ a.reconnectAttemptsRef < MAX_RECONNECT_ATTEMPTS
        THEN [a EXCEPT !.reconnectAttemptsRef = @ + 1,
                       !.timerCount = @ + 1,
                       !.reconnectTimeoutRef = a.timerCount + 1,
                       !.timers = @ \cup {[id |-> a.timerCount + 1,
                                           delay |-> RECONNECT_DELAY]}]
        ELSE a

\* the reconnect timer callback
ProviderOnTimer(q) ==
    IF q.shouldReconnectRef
    THEN [q EXCEPT !.reconnectTrigger = @ + 1] ELSE q

\* connectStream(mediaStream)
ConnectStreamBody(q, m) ==
    [q EXCEPT !.shouldReconnectRef = TRUE,
              !.reconnectAttemptsRef = 0,
              !.stream = m]

\* disconnectStream()
DisconnectStreamBody(q) ==
    [ProviderCleanup(q) EXCEPT !.stream = 0, !.isConnected = FALSE]

\* startFrameCapture(): assigning srcObject makes the element load the
\* stream, and loadedmetadata follows
StartFrameCapture(q) ==
    IF q.stream = 0 \/ q.wsRef = 0 THEN q
    ELSE [q EXCEPT !.videoSrc = q.stream, !.metadataPending = TRUE]

\* the capture effect
CaptureEffectBody(q) ==
    IF q.isConnected /\ q.stream # 0 THEN StartFrameCapture(q) ELSE q

\* videoRef.current.onloadedmetadata: setInterval, the handle stored in
\* frameIntervalRef
OnLoadedMetadata(q) ==
    [q EXCEPT !.intervalCount = @ + 1,
              !.intervals = @ \cup {q.intervalCount + 1},
              !.frameIntervalRef = q.intervalCount + 1,
              !.metadataPending = FALSE]

\* what may go wrong in a tick: drawImage, toDataURL or send throws
Failures == {"none", "draw", "encode", "send"}

\* the step was no tick
NoTick == [some |-> FALSE, open |-> FALSE, failure |-> "none",
           captured |-> FALSE, sent |-> FALSE, escaped |-> FALSE]

\* a tick without the readyState test
TickSkipsNever(q) == FALSE

\* the tick returns at once unless the socket of wsRef is OPEN
TickSkips(q) == ~(q.wsRef # 0 /\ q.sockets[q.wsRef] = "OPEN")

\* a tick without try/catch
TickCatchesNothing(failure) == FALSE

\* try/catch around drawImage, toDataURL and send
TickCatches(failure) == TRUE

\* the interval callback: what the tick did. send() on a socket that is
\* not OPEN writes nothing
TickBody(q, failure) ==
    IF TickSkips(q) THEN [NoTick EXCEPT !.some = TRUE]
    ELSE [some |-> TRUE,
          open |-> q.wsRef # 0 /\ q.sockets[q.wsRef] = "OPEN",
          failure |-> failure,
          captured |-> failure # "draw",
          sent |-> /\ failure = "none"
                   /\ q.wsRef # 0 /\ q.sockets[q.wsRef] = "OPEN",
          escaped |-> failure # "none" /\ ~TickCatches(failure)]

\* the provider after its first render and the first run of its effects
ThinMounted ==
    /\ stream = 0
    /\ isConnected = FALSE
    /\ reconnectTrigger = 0
    /\ wsRef = 0
    /\ reconnectTimeoutRef = 0
    /\ reconnectAttemptsRef = 0
    /\ shouldReconnectRef = FALSE
    /\ providerSockets = <<>>
    /\ providerTimers = {}
    /\ providerTimerCount = 0
    /\ effectDeps = <<0, 0>>
    /\ hasCleanup = FALSE
    /\ providerEpisode = [clean |-> FALSE, attempts |-> 0]
    /\ frameIntervalRef = 0
    /\ intervals = {}
    /\ intervalCount = 0
    /\ videoSrc = 0
    /\ metadataPending = FALSE
    /\ captureDeps = <<FALSE, 0>>
    /\ framesSent = 0
    /\ failed = FALSE
    /\ lastTick = NoTick

\* the provider of a specification that does not exercise it
ThinIdle == ThinMounted

\* the caller invokes connectStream(m)
ConnectStream(m) ==
    /\ CommitProvider(ConnectStreamBody(Provider, m))
    /\ providerEpisode' = [providerEpisode EXCEPT !.clean = FALSE]
    /\ UNCHANGED effectDeps
    /\ lastTick' = NoTick
    /\ UNCHANGED FrameObs
    /\ UNCHANGED NotThin

\* the caller invokes disconnectStream()
DisconnectStream ==
    /\ CommitProvider(DisconnectStreamBody(Provider))
    /\ providerEpisode' = [providerEpisode EXCEPT !.clean = FALSE]
    /\ UNCHANGED effectDeps
    /\ lastTick' = NoTick
    /\ UNCHANGED FrameObs
    /\ UNCHANGED NotThin

\* React re-runs the connection effect after stream or reconnectTrigger
\* changed, and after it, in the same flush, the capture effect if
\* isConnected or stream changed
ConnectionEffect ==
    /\ effectDeps # <<stream, reconnectTrigger>>
    /\ LET q == ConnectionEffectRun(Provider)
           r == IF captureDeps # <<isConnected, stream>>
                THEN CaptureEffectBody(q) ELSE q
       IN  /\ Len(q.sockets) <= MaxProviderSockets
           /\ CommitProvider(r)
           /\ providerEpisode' =
                  [providerEpisode EXCEPT !.attempts =
                       IF q.sockets # providerSockets THEN @ + 1 ELSE @]
    /\ effectDeps' = <<stream, reconnectTrigger>>
    /\ captureDeps' = <<isConnected, stream>>
    /\ lastTick' = NoTick
    /\ UNCHANGED <<framesSent, failed>>
    /\ UNCHANGED NotThin

\* the browser opens socket i
ProviderSocketOpen(i) ==
    /\ providerSockets[i] = "CONNECTING"
    /\ CommitProvider(ProviderOnOpen([Provider EXCEPT !.sockets[i] = "OPEN"]))
    /\ providerEpisode' =
           [clean |-> /\ providerTimers = {}
                      /\ effectDeps = <<stream, reconnectTrigger>>
                      /\ \A j \in DOMAIN providerSockets :
                             j # i => providerSockets[j] = "CLOSED",
            attempts |-> 0]
    /\ UNCHANGED effectDeps
    /\ lastTick' = NoTick
    /\ UNCHANGED FrameObs
    /\ UNCHANGED NotThin

\* the connection attempt of socket i fails
ProviderSocketFail(i) ==
    /\ providerSockets[i] = "CONNECTING"
    /\ CommitProvider(ProviderOnClose([Provider EXCEPT !.sockets[i] = "CLOSED"]))
    /\ UNCHANGED <<effectDeps, providerEpisode>>
    /\ lastTick' = NoTick
    /\ UNCHANGED FrameObs
    /\ UNCHANGED NotThin

\* the open connection of socket i drops
ProviderSocketDrop(i) ==
    /\ providerSockets[i] = "OPEN"
    /\ CommitProvider(ProviderOnClose([Provider EXCEPT !.sockets[i] = "CLOSED"]))
    /\ UNCHANGED <<effectDeps, providerEpisode>>
    /\ lastTick' = NoTick
    /\ UNCHANGED FrameObs
    /\ UNCHANGED NotThin

\* the closing handshake of socket i ends
ProviderSocketClosed(i) ==
    /\ providerSockets[i] = "CLOSING"
    /\ CommitProvider(ProviderOnClose([Provider EXCEPT !.sockets[i] = "CLOSED"]))
    /\ UNCHANGED <<effectDeps, providerEpisode>>
    /\ lastTick' = NoTick
    /\ UNCHANGED FrameObs
    /\ UNCHANGED NotThin

\* the reconnect timer t fires
ProviderTimerFire(t) ==
    /\ CommitProvider(ProviderOnTimer([Provider EXCEPT !.timers = @ \ {t}]))
    /\ UNCHANGED <<effectDeps, providerEpisode>>
    /\ lastTick' = NoTick
    /\ UNCHANGED FrameObs
    /\ UNCHANGED NotThin

\* React re-runs the capture effect after isConnected or stream changed,
\* the connection effect not being due
CaptureEffect ==
    /\ effectDeps = <<stream, reconnectTrigger>>
    /\ captureDeps # <<isConnected, stream>>
    /\ CommitProvider(CaptureEffectBody(Provider))
    /\ captureDeps' = <<isConnected, stream>>
    /\ lastTick' = NoTick
    /\ UNCHANGED <<effectDeps, providerEpisode, framesSent, failed>>
    /\ UNCHANGED NotThin

\* the video element fires loadedmetadata
LoadedMetadata ==
    /\ metadataPending
    /\ intervalCount < MaxIntervals
    /\ CommitProvider(OnLoadedMetadata(Provider))
    /\ lastTick' = NoTick
    /\ UNCHANGED <<effectDeps, providerEpisode, FrameObs>>
    /\ UNCHANGED NotThin

\* interval i ticks; failure is what goes wrong in the tick if it gets to
\* draw, encode and send
Tick(i, failure) ==
    /\ framesSent < MaxSentFrames
    /\ lastTick' = TickBody(Provider, failure)
    /\ framesSent' = IF lastTick'.sent THEN framesSent + 1 ELSE framesSent
    /\ failed' = (failed \/ lastTick'.failure # "none")
    /\ CommitProvider(Provider)
    /\ UNCHANGED <<effectDeps, providerEpisode, captureDeps>>
    /\ UNCHANGED NotThin

ThinStep ==
    \/ \E m \in 1..NumStreams : ConnectStream(m)
    \/ DisconnectStream
    \/ ConnectionEffect
    \/ \E i \in DOMAIN providerSockets : ProviderSocketOpen(i)
    \/ \E i \in DOMAIN providerSockets : ProviderSocketFail(i)
    \/ \E i \in DOMAIN providerSockets : ProviderSocketDrop(i)
    \/ \E i \in DOMAIN providerSockets : ProviderSocketClosed(i)
    \/ \E t \in providerTimers : ProviderTimerFire(t)
    \/ CaptureEffect
    \/ LoadedMetadata

\* the provider with a video element that loads and intervals that tick
FrameStep ==
    \/ \E m \in 1..NumStreams : ConnectStream(m)
    \/ DisconnectStream
    \/ /\ ConnectionEffectRun(Provider).sockets # providerSockets
              => Len(providerSockets) < MaxFrameSockets
       /\ ConnectionEffect
    \/ \E i \in DOMAIN providerSockets : ProviderSocketOpen(i)
    \/ \E i \in DOMAIN providerSockets : ProviderSocketFail(i)
    \/ \E i \in DOMAIN providerSockets : ProviderSocketDrop(i)
    \/ \E i \in DOMAIN providerSockets : ProviderSocketClosed(i)
    \/ \E t \in providerTimers : ProviderTimerFire(t)
    \/ CaptureEffect
    \/ LoadedMetadata
    \/ \E i \in intervals, failure \in Failures : Tick(i, failure)

\* ------------------------------------------------------------------------
\* CameraStream: the landmark subscription and the request_id counter
\* ------------------------------------------------------------------------

\* a render whose subscribeToLandmarks differs from the one before
SubscribeChangedAlways(render) == TRUE

\* subscribeToLandmarks is useCallback(..., []): the same function at every
\* render, so the landmark effect runs at the first render only
SubscribeChanged(render) == render = 1

\* CameraStream is not rendered
CameraUnmounted ==
    /\ cameraMounted = FALSE
    /\ requestId = <<>>
    /\ subscriber = 0
    /\ handed = <<>>

\* CameraStream in a specification that does not exercise it
CameraIdle == CameraUnmounted

\* the first render and its effects: connect(), and the landmark effect
\* subscribes the callback of this render
CameraMount ==
    /\ ~cameraMounted
    /\ ConnectCreates(Service) => Len(sockets) < MaxSockets
    /\ Commit(Connect(Service))
    /\ episode' = [episode EXCEPT !.clean = FALSE]
    /\ disconnected' = FALSE
    /\ Observe("none", NoDispatch)
    /\ cameraMounted' = TRUE
    /\ requestId' = <<0>>
    /\ subscriber' = IF SubscribeChanged(1) THEN 1 ELSE 0
    /\ UNCHANGED <<handed, Config, Outbound, HandlerSets>>
    /\ connectionValue' = connectionValue
    /\ UNCHANGED NotCamera

\* a later render: let requestId = 0 makes a new variable; the landmark
\* effect runs again only if subscribeToLandmarks changed
CameraRender ==
    /\ cameraMounted
    /\ Len(requestId) < MaxRenders
    /\ requestId' = Append(requestId, 0)
    /\ subscriber' = IF SubscribeChanged(Len(requestId) + 1)
                     THEN Len(requestId) + 1 ELSE subscriber
    /\ UNCHANGED <<cameraMounted, handed, wsVars>>
    /\ UNCHANGED NotCamera

\* the detection loop hands a hand to the subscribed callback, which
\* increments the requestId of its render and calls send(message)
LandmarksCallback ==
    /\ cameraMounted
    /\ subscriber # 0
    /\ sendCount < MaxSends
    /\ LET id == requestId[subscriber] + 1
       IN  /\ requestId' = [requestId EXCEPT ![subscriber] = id]
           /\ handed' = Append(handed, id)
    /\ sendCount' = sendCount + 1
    /\ sendResult' = SendWrites(Service, TRUE)
    /\ wire' = IF SendWrites(Service, TRUE)
               THEN wire \cup {sendCount + 1} ELSE wire
    /\ Observe("none", NoDispatch)
    /\ UNCHANGED <<cameraMounted, subscriber, Config, ws, reconnectAttempts,
                   reconnectTimeout, shouldReconnect, sockets, timers,
                   timerCount, episode, disconnected, HandlerSets>>
    /\ connectionValue' = connectionValue
    /\ UNCHANGED NotCamera

\* CameraStream unmounts: the cleanups call disconnect() and unsubscribe()
CameraUnmount ==
    /\ cameraMounted
    /\ Commit(Disconnect(Service))
    /\ episode' = [episode EXCEPT !.clean = FALSE]
    /\ disconnected' = TRUE
    /\ Observe("none", NoDispatch)
    /\ cameraMounted' = FALSE
    /\ requestId' = <<>>
    /\ subscriber' = 0
    /\ handed' = <<>>
    /\ UNCHANGED <<Config, Outbound, HandlerSets>>
    /\ connectionValue' = connectionValue
    /\ UNCHANGED NotCamera

CameraStep ==
    \/ CameraMount
    \/ CameraRender
    \/ LandmarksCallback
    \/ CameraUnmount
    \/ \E i \in DOMAIN sockets : SocketOpen(i)
    \/ \E i \in DOMAIN sockets : SocketFail(i)
    \/ \E i \in DOMAIN sockets : SocketDrop(i)
    \/ \E i \in DOMAIN sockets : SocketClosed(i)
    \/ \E t \in timers : ReconnectTimerFire(t)

\* ------------------------------------------------------------------------
\* WebRTCProvider: the peer-to-peer transport and its signaling handshake
\* ------------------------------------------------------------------------

\* the state and refs of the provider that its functions read and write
PeerProvider ==
    [stream |-> peerStream, isConnected |-> peerIsConnected,
     pcRef |-> pcRef, handshakes |-> handshakes]

CommitPeerProvider(q) ==
    /\ peerStream' = q.stream
    /\ peerIsConnected' = q.isConnected
    /\ pcRef' = q.pcRef
    /\ handshakes' = q.handshakes

\* how the synchronous part of setupWebRTC ends: it reaches createOffer,
\* the RTCPeerConnection constructor throws, or a later call throws
SetupOutcomes == {"ok", "noConnection", "throws"}

\* a run of setupWebRTC for stream m at the given step
Handshake(m, step) ==
    [stream |-> m, step |-> step, closed |-> FALSE, posts |-> 0,
     resolvedBy |-> "none", gatheringPending |-> FALSE,
     timerPending |-> FALSE]

\* the catch block of setupWebRTC
HandshakeFails(q, h) ==
    [q EXCEPT !.handshakes[h].step = "failed", !.isConnected = FALSE]

\* setupWebRTC() up to its first await
SetupWebRTC(q, outcome) ==
    LET h == Len(q.handshakes) + 1
    IN  IF outcome = "ok"
        THEN [q EXCEPT !.pcRef = h,
                       !.handshakes = Append(@, Handshake(q.stream, "offer"))]
        ELSE IF outcome = "noConnection"
        THEN [q EXCEPT !.isConnected = FALSE,
                       !.handshakes = Append(@, Handshake(q.stream, "failed"))]
        ELSE [q EXCEPT !.pcRef = h,
                       !.isConnected = FALSE,
                       !.handshakes = Append(@, Handshake(q.stream, "failed"))]

\* if (pcRef.current) { pcRef.current.close(); pcRef.current = null }
ClosePeerConnection(q) ==
    IF q.pcRef = 0 THEN q
    ELSE [q EXCEPT !.handshakes[q.pcRef].closed = TRUE, !.pcRef = 0]

\* the cleanup the setup effect returns
SetupCleanup(q) ==
    [ClosePeerConnection(q) EXCEPT !.isConnected = FALSE]

\* the body of the setup effect
SetupEffectBody(q, outcome) ==
    IF q.stream = 0 THEN q ELSE SetupWebRTC(q, outcome)

\* one run of the setup effect: the cleanup of the previous run, if that
\* run returned one, then the body
SetupEffectRun(q, outcome) ==
    SetupEffectBody(IF peerDeps # 0 THEN SetupCleanup(q) ELSE q, outcome)

\* createOffer and setLocalDescription settle: rejected on a closed
\* connection; otherwise the wait for the candidates begins, with the
\* onicecandidate handler and the 500 ms timer
OfferSettles(q, h, ok) ==
    IF ok /\ ~q.handshakes[h].closed
    THEN [q EXCEPT !.handshakes[h].step = "gathering",
                   !.handshakes[h].gatheringPending = TRUE,
                   !.handshakes[h].timerPending = TRUE]
    ELSE HandshakeFails(q, h)

\* a variant of ResolveGathering in which every call of resolve continues
\* the function
ResolveGatheringAgain(x, by) ==
    [x EXCEPT !.step = "post", !.posts = @ + 1, !.resolvedBy = by]

\* resolve() of the promise setupWebRTC awaits: the first call continues
\* the function, which issues the POST; a later call does nothing
ResolveGathering(x, by) ==
    IF x.step = "gathering"
    THEN [x EXCEPT !.step = "post", !.posts = @ + 1, !.resolvedBy = by]
    ELSE x

\* onicecandidate with a null candidate
GatheringCompleteBody(q, h) ==
    [q EXCEPT !.handshakes[h] =
         [ResolveGathering(@, "complete") EXCEPT !.gatheringPending = FALSE]]

\* the timer of setTimeout(resolve, 500)
GatheringTimeoutBody(q, h) ==
    [q EXCEPT !.handshakes[h] =
         [ResolveGathering(@, "timeout") EXCEPT !.timerPending = FALSE]]

\* axios.post settles
PostSettles(q, h, ok) ==
    IF ok THEN [q EXCEPT !.handshakes[h].step = "answer"]
    ELSE HandshakeFails(q, h)

\* setRemoteDescription and the addIceCandidate calls settle: rejected on a
\* closed connection
AnswerSettles(q, h, ok) ==
    IF ok /\ ~q.handshakes[h].closed
    THEN [q EXCEPT !.handshakes[h].step = "done", !.isConnected = TRUE]
    ELSE HandshakeFails(q, h)

\* connectStream(mediaStream)
PeerConnectStreamBody(q, m) == [q EXCEPT !.stream = m]

\* disconnectStream()
PeerDisconnectStreamBody(q) == [ClosePeerConnection(q) EXCEPT !.stream = 0]

\* the provider after its first render, the effect having run with no stream
PeerMounted ==
    /\ peerStream = 0
    /\ peerIsConnected = FALSE
    /\ pcRef = 0
    /\ handshakes = <<>>
    /\ peerDeps = 0
    /\ connectCalls = 0
    /\ served = 0

\* the provider in a specification that does not exercise it
PeerIdle == PeerMounted

\* the caller invokes connectStream(m)
PeerConnectStream(m) ==
    /\ connectCalls < MaxConnectCalls
    /\ CommitPeerProvider(PeerConnectStreamBody(PeerProvider, m))
    /\ connectCalls' = connectCalls + 1
    /\ UNCHANGED <<peerDeps, served>>
    /\ UNCHANGED NotPeer

\* the caller invokes disconnectStream()
PeerDisconnectStream ==
    /\ CommitPeerProvider(PeerDisconnectStreamBody(PeerProvider))
    /\ UNCHANGED <<peerDeps, connectCalls, served>>
    /\ UNCHANGED NotPeer

\* React re-runs the setup effect after stream changed
SetupEffect(outcome) ==
    /\ peerDeps # peerStream
    /\ peerStream # 0 => Len(handshakes) < MaxHandshakes
    /\ CommitPeerProvider(SetupEffectRun(PeerProvider, outcome))
    /\ peerDeps' = peerStream
    /\ served' = connectCalls
    /\ UNCHANGED connectCalls
    /\ UNCHANGED NotPeer

\* the promises of createOffer and setLocalDescription settle
OfferSettled(h, ok) ==
    /\ handshakes[h].step = "offer"
    /\ CommitPeerProvider(OfferSettles(PeerProvider, h, ok))
    /\ UNCHANGED <<peerDeps, connectCalls, served>>
    /\ UNCHANGED NotPeer

\* the connection reports the end of candidate gathering
GatheringComplete(h) ==
    /\ handshakes[h].gatheringPending
    /\ ~handshakes[h].closed
    /\ CommitPeerProvider(GatheringCompleteBody(PeerProvider, h))
    /\ UNCHANGED <<peerDeps, connectCalls, served>>
    /\ UNCHANGED NotPeer

\* the 500 ms timer fires
GatheringTimeout(h) ==
    /\ handshakes[h].timerPending
    /\ CommitPeerProvider(GatheringTimeoutBody(PeerProvider, h))
    /\ UNCHANGED <<peerDeps, connectCalls, served>>
    /\ UNCHANGED NotPeer

\* the signaling server answers the POST, or the request fails
PostSettled(h, ok) ==
    /\ handshakes[h].step = "post"
    /\ CommitPeerProvider(PostSettles(PeerProvider, h, ok))
    /\ UNCHANGED <<peerDeps, connectCalls, served>>
    /\ UNCHANGED NotPeer

\* the answer and its candidates are applied, or applying them fails
AnswerSettled(h, ok) ==
    /\ handshakes[h].step = "answer"
    /\ CommitPeerProvider(AnswerSettles(PeerProvider, h, ok))
    /\ UNCHANGED <<peerDeps, connectCalls, served>>
    /\ UNCHANGED NotPeer

PeerStep ==
    \/ \E m \in 1..NumStreams : PeerConnectStream(m)
    \/ PeerDisconnectStream
    \/ \E outcome \in SetupOutcomes : SetupEffect(outcome)
    \/ \E h \in DOMAIN handshakes, ok \in BOOLEAN : OfferSettled(h, ok)
    \/ \E h \in DOMAIN handshakes : GatheringComplete(h)
    \/ \E h \in DOMAIN handshakes : GatheringTimeout(h)
    \/ \E h \in DOMAIN handshakes, ok \in BOOLEAN : PostSettled(h, ok)
    \/ \E h \in DOMAIN handshakes, ok \in BOOLEAN : AnswerSettled(h, ok)

\* ------------------------------------------------------------------------
\* Specifications
\* ------------------------------------------------------------------------
Init == WSInit /\ SlidesIdle /\ HLIdle /\ ThinIdle /\ CameraIdle /\ PeerIdle

Next == WSStep

\* WebSocketService
Spec == Init /\ [][Next]_vars

\* the service created with maxReconnectAttempts at most 1
HooksInit ==
    /\ WSInit /\ SlidesIdle /\ HLIdle /\ ThinIdle /\ CameraIdle /\ PeerIdle
    /\ maxReconnectAttempts <= 1
    /\ reconnectDelay = 1000

HooksNext == HooksStep

\* WebSocketService with subscribers
SpecHooks == HooksInit /\ [][HooksNext]_vars

SlidesInit == SlidesMounted /\ WSIdle /\ HLIdle /\ ThinIdle /\ CameraIdle /\ PeerIdle

SlidesNext == SlidesStep

\* SlidesView fed by WebSocketProvider.lastMessage
SpecSlides == SlidesInit /\ [][SlidesNext]_vars

LandmarksInit ==
    HLLoaded /\ WSIdle /\ SlidesIdle /\ ThinIdle /\ CameraIdle /\ PeerIdle

LandmarksNext == HLStep

\* useHandLandmarks
SpecLandmarks == LandmarksInit /\ [][LandmarksNext]_vars

LiveNext == LiveStep

\* useHandLandmarks with a browser that keeps running the scheduled callback
\* and a video that keeps playing
SpecLandmarksLive ==
    LandmarksInit /\ [][LiveNext]_vars /\ WF_vars(ReadyIteration)

ThinInit == ThinMounted /\ WSIdle /\ SlidesIdle /\ HLIdle /\ CameraIdle /\ PeerIdle

ThinNext == ThinStep

\* thin-client WebSocketProviderComponent
SpecThin == ThinInit /\ [][ThinNext]_vars

FrameNext == FrameStep

\* thin-client WebSocketProviderComponent with its frame producer
SpecFrames == ThinInit /\ [][FrameNext]_vars

\* the service as the application makes it, and CameraStream not yet mounted
CameraInit ==
    /\ WSInit /\ SlidesIdle /\ HLIdle /\ ThinIdle /\ CameraUnmounted
    /\ PeerIdle
    /\ maxReconnectAttempts = 1
    /\ reconnectDelay = 3000
    /\ autoReconnect

CameraNext == CameraStep

\* CameraStream sending landmark messages over the WebSocketService
SpecCamera == CameraInit /\ [][CameraNext]_vars

PeerInit ==
    PeerMounted /\ WSIdle /\ SlidesIdle /\ HLIdle /\ ThinIdle /\ CameraIdle

PeerNext == PeerStep

\* the peer-to-peer provider and the handshakes it runs
SpecSignaling == PeerInit /\ [][PeerNext]_vars

\* ------------------------------------------------------------------------
\* Claims about WebSocketService, checked under Spec
\* ------------------------------------------------------------------------

\* the current socket has closed and no reconnect timer is pending
Quiescent == ws # 0 /\ sockets[ws] = "CLOSED" /\ timers = {}

\* C1: with autoReconnect true, from an OPEN channel that drops (no call of
\* connect() or disconnect() and no older socket or timer left over since
\* the open) and every later attempt failing, the reconnect timers create at
\* most maxReconnectAttempts sockets, every timer is set with the delay
\* reconnectDelay, and once the channel is at rest exactly
\* maxReconnectAttempts attempts have been made.
C1_ReconnectBudget ==
    (autoReconnect /\ episode.clean) =>
        /\ episode.attempts <= maxReconnectAttempts
        /\ \A t \in timers : t.delay = reconnectDelay
        /\ Quiescent => episode.attempts = maxReconnectAttempts

C1_Witness ==
    /\ autoReconnect /\ episode.clean /\ Quiescent
    /\ maxReconnectAttempts = 2
    /\ episode.attempts = 2

\* C2: after disconnect() (and until the next explicit connect())
\* shouldReconnect is false, no reconnect timer is pending and the service
\* has no socket.
C2_DisconnectIsFinal ==
    disconnected => (~shouldReconnect /\ timers = {} /\ ws = 0)

\* C7: a send() call on a channel that is not OPEN returns false and writes
\* nothing; a message is written only by the send() call that hands it, so a
\* refused message is never written later.
C7_SendOnlyWhenOpen ==
    [][/\ wire \subseteq wire'
       /\ IF sendCount' = sendCount + 1
          THEN /\ wire' \ wire \subseteq {sendCount'}
               /\ ReadyState(Service) # "OPEN" =>
                      (wire' = wire /\ sendResult' = FALSE)
          ELSE wire' = wire]_vars

C7_Witness ==
    /\ sendCount = 2 /\ sendResult = FALSE /\ wire = {1}
    /\ ws # 0 /\ sockets[ws] = "CONNECTING"

\* the budget is used up: auto-reconnect is on, reconnectAttempts is at the
\* cap, the current socket has closed and no reconnect is pending
Failed ==
    /\ shouldReconnect
    /\ reconnectAttempts >= maxReconnectAttempts
    /\ Quiescent

\* this step closes a socket (its onclose callback runs)
SocketCloses ==
    \E i \in DOMAIN sockets : sockets[i] # "CLOSED" /\ sockets'[i] = "CLOSED"

\* this step opens a socket (its onopen callback runs)
SocketOpens ==
    \E i \in DOMAIN sockets : sockets[i] = "CONNECTING" /\ sockets'[i] = "OPEN"

\* C11: a close that finds reconnectAttempts at the cap schedules no timer
\* and creates no socket; once the budget is used up no step other than an
\* explicit connect() creates a socket or schedules a timer, and an explicit
\* connect() creates a new socket, which becomes the current one.
C11_TerminalUntilConnect ==
    [][/\ (shouldReconnect /\ reconnectAttempts >= maxReconnectAttempts
            /\ SocketCloses)
           => (timers' = timers /\ timerCount' = timerCount
               /\ Len(sockets') = Len(sockets))
       /\ Failed =>
              IF ConnectCall
              THEN /\ Len(sockets') = Len(sockets) + 1
                   /\ ws' = Len(sockets')
                   /\ sockets'[ws'] = "CONNECTING"
                   /\ timers' = {}
              ELSE /\ Len(sockets') = Len(sockets)
                   /\ timers' = {} /\ timerCount' = timerCount]_vars

C11_Witness ==
    /\ Failed /\ episode.clean
    /\ maxReconnectAttempts = 2 /\ reconnectAttempts = 2
    /\ episode.attempts = 2
    /\ sockets = <<"CLOSED", "CLOSED", "CLOSED">>

\* C12: every open of a socket sets reconnectAttempts to 0, and the drop of
\* the open current socket that finds it 0 starts a new round of reconnects
\* (the first attempt is scheduled) when auto-reconnect is on and the cap is
\* positive.
C12_OpenResetsAttempts ==
    [][/\ SocketOpens => reconnectAttempts' = 0
       /\ (/\ ws # 0 /\ sockets[ws] = "OPEN" /\ sockets'[ws] = "CLOSED"
           /\ reconnectAttempts = 0 /\ shouldReconnect
           /\ maxReconnectAttempts > 0)
           => (reconnectAttempts' = 1 /\ timerCount' = timerCount + 1
               /\ Cardinality(timers') = Cardinality(timers) + 1)]_vars

C12_Witness ==
    /\ maxReconnectAttempts = 2
    /\ sockets = <<"CLOSED", "CLOSED", "CLOSED">> /\ ws = 3
    /\ timerCount = 3 /\ Cardinality(timers) = 1
    /\ reconnectAttempts = 1

\* C20: connect() called while the current socket is OPEN or CONNECTING
\* creates no socket and leaves shouldReconnect, reconnectAttempts, the
\* reconnect timer and the handler sets as they were.
C20_ConnectIsNoOpWhenLive ==
    [][(ReadyState(Service) \in {"OPEN", "CONNECTING"} /\ ConnectCall)
        => UNCHANGED <<ws, sockets, shouldReconnect, reconnectAttempts,
                       reconnectTimeout, timers, timerCount,
                       HandlerSets>>]_vars

C20_Witness ==
    /\ sockets = <<"OPEN">> /\ ws = 1
    /\ ~episode.clean /\ ~disconnected
    /\ timerCount = 0 /\ autoReconnect /\ shouldReconnect

\* the sockets of the service that are CONNECTING or OPEN
LiveSockets == {i \in DOMAIN sockets : sockets[i] \in {"CONNECTING", "OPEN"}}

\* C28: at every moment at most one socket of the service is CONNECTING or
\* OPEN, and it is the one this.ws refers to.
C28_OneLiveSocket ==
    /\ Cardinality(LiveSockets) <= 1
    /\ \A i \in LiveSockets : ws = i

\* connect() after disconnect(), while the old socket is still closing
C28_Witness ==
    /\ Len(sockets) >= 2
    /\ ws = Len(sockets) /\ sockets[ws] = "CONNECTING"
    /\ sockets[Len(sockets) - 1] = "CLOSING"

\* C33: while the current socket of the service is OPEN the value last
\* handed to the onConnectionChange subscribers is true; the close event
\* of a socket that connect() has replaced leaves reconnectAttempts as it
\* was.
C33_ConnectionValueTracksSocket ==
    [][/\ ReadyState(Service)' = "OPEN" => connectionValue' = "true"
       /\ (\E i \in DOMAIN sockets :
               /\ ws # 0 /\ i # ws
               /\ sockets[i] # "CLOSED" /\ sockets'[i] = "CLOSED")
              => reconnectAttempts' = reconnectAttempts]_vars

\* C34: at most one reconnect timer is pending, and reconnectTimeout holds
\* its handle.
C34_OneReconnectTimer ==
    /\ Cardinality(timers) <= 1
    /\ \A t \in timers : reconnectTimeout = t.id

\* C35: connect() leaves reconnectAttempts as it is, and only the open of
\* a socket lowers it; with reconnectAttempts at the cap, the close of a
\* socket that never opened schedules no reconnect, also when
\* shouldReconnect is true.
C35_ConnectKeepsAttempts ==
    [][/\ ConnectCall => reconnectAttempts' = reconnectAttempts
       /\ reconnectAttempts' < reconnectAttempts => SocketOpens
       /\ (/\ reconnectAttempts >= maxReconnectAttempts
           /\ \E i \in DOMAIN sockets :
                  sockets[i] = "CONNECTING" /\ sockets'[i] = "CLOSED")
              => /\ timers' = timers
                 /\ timerCount' = timerCount
                 /\ Len(sockets') = Len(sockets)]_vars

\* the cap of one attempt was used up by a reconnect that failed; the
\* socket of a later connect() closed without opening and no timer is set
C35_Witness ==
    /\ maxReconnectAttempts = 1 /\ reconnectAttempts = 1
    /\ shouldReconnect
    /\ sockets = <<"CLOSED", "CLOSED", "CLOSED">> /\ ws = 3
    /\ timerCount = 1 /\ timers = {}
    /\ connectionValue = "false"

\* ------------------------------------------------------------------------
\* Claims about the hooks of WebSocketService, checked under SpecHooks
\* ------------------------------------------------------------------------

\* the <<hook, handler>> pairs of the handlers subscribed to the hook
Subscribed(hook) ==
    {<<hook, HandlersOf(hook)[i]>> : i \in DOMAIN HandlersOf(hook)}

ChannelState == <<ws, sockets, reconnectAttempts, reconnectTimeout,
                  shouldReconnect, timers, timerCount>>

\* C17: a payload that is not valid JSON invokes every error handler and no
\* message handler, leaves the socket, the reconnect state and the handler
\* sets as they were and lets no exception out of onmessage; a valid
\* payload, whatever came before it, invokes every message handler.
C17_MalformedPayloadDropped ==
    [][/\ received' = "garbage" =>
              /\ notified' = Subscribed("error")
              /\ ~escaped'
              /\ UNCHANGED <<ChannelState, HandlerSets>>
       /\ received' = "json" =>
              /\ notified' = Subscribed("message")
              /\ ~escaped']_vars

C17_Witness ==
    /\ received = "garbage"
    /\ errorHandlers = <<"good">> /\ messageHandlers = <<"good">>
    /\ notified = {<<"error", "good">>}
    /\ ws # 0 /\ sockets[ws] = "OPEN"

\* C18: no exception leaves a callback; a dispatch to a hook invokes every
\* handler subscribed to it, also the ones that come after a handler that
\* throws; the channel is as the callback leaves it without the throw:
\* untouched by onmessage, reconnectAttempts 0 after onopen, the reconnect
\* scheduled after onclose.
C18_FanOutIsolated ==
    [][/\ ~escaped'
       /\ received' = "json" =>
              /\ Subscribed("message") \subseteq notified'
              /\ UNCHANGED ChannelState
       /\ received' = "garbage" =>
              /\ Subscribed("error") \subseteq notified'
              /\ UNCHANGED ChannelState
       /\ SocketOpens =>
              /\ Subscribed("connection") \subseteq notified'
              /\ reconnectAttempts' = 0
       /\ SocketCloses =>
              /\ Subscribed("connection") \cup Subscribed("close")
                     \subseteq notified'
              /\ (shouldReconnect
                      /\ reconnectAttempts < maxReconnectAttempts)
                     => timerCount' = timerCount + 1
       /\ (\E i \in DOMAIN sockets :
              sockets[i] = "CONNECTING" /\ sockets'[i] = "CLOSED")
              => Subscribed("error") \subseteq notified']_vars

C18_Witness ==
    /\ closeHandlers = <<"bad", "good">>
    /\ notified = {<<"close", "bad">>, <<"close", "good">>}
    /\ ~escaped
    /\ timers # {} /\ reconnectAttempts = 1

\* C29: a handler whose unsubscribe function ran is no longer in the set of
\* its hook and no dispatch invokes it until it is subscribed again; a
\* dispatch invokes subscribed handlers only, and a handler enters a set by
\* a subscription only; the call removes that handler alone, and a message
\* dispatch still invokes every handler that is subscribed.
C29_UnsubscribeRemovesOne ==
    [][/\ \A p \in unsubscribed' :
              /\ p \notin Subscribed(p[1])'
              /\ p \notin notified'
       /\ notified' \subseteq UNION {Subscribed(hook) : hook \in HookNames}
       /\ \A hook \in HookNames :
              \A p \in Subscribed(hook)' \ Subscribed(hook) :
                  AddHandler(hook, p[2])
       /\ \A hook \in HookNames, handler \in Handlers :
              DeleteHandler(hook, handler) =>
                  \A other \in HookNames :
                      Subscribed(other)' =
                          Subscribed(other) \ {<<hook, handler>>}
       /\ received' = "json" => Subscribed("message")' \subseteq notified'
      ]_vars

\* a message dispatch after the unsubscribe of one of two handlers
C29_Witness ==
    /\ unsubscribed = {<<"message", "bad">>}
    /\ messageHandlers = <<"good">>
    /\ received = "json"
    /\ notified = {<<"message", "good">>}

\* ------------------------------------------------------------------------
\* Claims about CameraStream, checked under SpecCamera
\* ------------------------------------------------------------------------

\* C26: between connect() and the explicit disconnect() the request_id
\* values handed to send() are strictly increasing in send order, whether
\* the sends succeed or not and whatever the number of renders.
C26_RequestIdsIncrease ==
    \A i, j \in DOMAIN handed : i < j => handed[i] < handed[j]

\* two messages handed to send(), one before and one after a re-render, the
\* second while the socket is not open
C26_Witness ==
    /\ handed = <<1, 2>>
    /\ Len(requestId) = 2
    /\ ~sendResult /\ wire = {1}

\* ------------------------------------------------------------------------
\* Claims about the gesture state machine, checked under SpecSlides
\* ------------------------------------------------------------------------

\* this step is a run of the prediction effect
EffectRuns == effectPending /\ ~effectPending'

\* this step is a run of the prediction effect for a PredictionEvent
EventRuns == EffectRuns /\ lastMessage # <<>>

\* dialog state, deck and preview are as before and nothing was commanded
NothingDone ==
    /\ showDialog' = showDialog
    /\ position' = position
    /\ deckRef' = deckRef
    /\ fileURL' = fileURL
    /\ lastAction' = "none"

\* C3 as stated: of two PredictionEvents less than LOCK_DURATION apart the
\* second never triggers a command or a dialog transition.
C3_SecondNeverTriggers ==
    (lastEvent.some /\ prevEvent.some
        /\ lastEvent.at - prevEvent.at < LOCK_DURATION)
    => lastAction = "none"

\* C3 amended: a PredictionEvent that arrives less than LOCK_DURATION after
\* an earlier PredictionEvent that passed the lock gate does not pass the
\* gate and triggers nothing, so of two events less than LOCK_DURATION
\* apart at most one triggers.
C3_OneTriggerPerWindow ==
    (lastEvent.some /\ passedBefore.some
        /\ lastEvent.at - passedBefore.at < LOCK_DURATION)
    => (lastAction = "none" /\ ~lastEvent.passed)

C3_Witness ==
    /\ lastEvent.some /\ passedBefore.some /\ prevEvent.some
    /\ prevEvent # passedBefore
    /\ lastEvent.at - passedBefore.at = 1250
    /\ ~effectPending /\ deckRef = "live" /\ ~showDialog
    /\ lastMessage = <<[predicted_class |-> "stop", direction |-> "",
                        confidence |-> CONFIDENCE_THRESHOLD]>>

\* C4: a run of the effect at a reading less than LOCK_DURATION after
\* lastNavigationRef changes neither lastNavigationRef nor the dialog, the
\* deck or the preview, and commands nothing.
C4_LockGateDiscards ==
    [][(EffectRuns /\ now' - lastNavigationRef < LOCK_DURATION)
        => (NothingDone /\ lastNavigationRef' = lastNavigationRef)]_vars

C4_Witness ==
    /\ lastEvent.some /\ prevEvent.some /\ ~effectPending
    /\ lastEvent.at = now /\ now - prevEvent.at = 500
    /\ lastNavigationRef = prevEvent.at
    /\ deckRef = "live" /\ ~showDialog /\ lastAction = "none"
    /\ lastMessage = <<[predicted_class |-> "two_up_inverted",
                        direction |-> "Left",
                        confidence |-> CONFIDENCE_THRESHOLD]>>

\* C5: a PredictionEvent with a confidence below CONFIDENCE_THRESHOLD changes
\* neither the dialog nor the deck nor the preview, whatever the state.
C5_LowConfidenceDoesNothing ==
    [][(EventRuns /\ lastMessage[1].confidence # Missing
            /\ lastMessage[1].confidence < CONFIDENCE_THRESHOLD)
        => NothingDone]_vars

C5_Witness ==
    /\ lastEvent.some /\ lastEvent.passed /\ lastEvent.at = now
    /\ ~effectPending /\ showDialog /\ fileURL
    /\ lastMessage = <<[predicted_class |-> "like", direction |-> "",
                        confidence |-> 50]>>

\* C6: with the dialog open, an accepted event (outside the lock window,
\* confidence not below the threshold) of a class other than "like" and
\* "stop" leaves the dialog open and the deck and preview as they were, and
\* commands nothing.
C6_DialogIgnoresOtherGestures ==
    [][(EventRuns /\ showDialog
            /\ now' - lastNavigationRef >= LOCK_DURATION
            /\ ~(lastMessage[1].confidence # Missing
                 /\ lastMessage[1].confidence < CONFIDENCE_THRESHOLD)
            /\ lastMessage[1].predicted_class \notin {"like", "stop"})
        => (NothingDone /\ showDialog')]_vars

C6_Witness ==
    /\ lastEvent.some /\ lastEvent.passed /\ lastEvent.at = now
    /\ ~effectPending /\ showDialog /\ deckRef = "live" /\ fileURL
    /\ lastAction = "none"
    /\ lastMessage = <<[predicted_class |-> "two_up_inverted",
                        direction |-> "Left",
                        confidence |-> CONFIDENCE_THRESHOLD]>>

\* C9: a message whose predicted_class is "empty" never reaches the gesture
\* state machine: no step taken while it is the rendered prediction moves
\* lastNavigationRef.
C9_EmptyNeverSurfaced ==
    [][(lastMessage # <<>> /\ lastMessage[1].predicted_class = "empty")
        => lastNavigationRef' = lastNavigationRef]_vars

\* C14: a PredictionEvent that arrives outside the lock window sets
\* lastNavigationRef to its arrival time whatever its confidence, and a
\* PredictionEvent that arrives less than LOCK_DURATION after an event that
\* passed the lock gate (acted upon or discarded for low confidence) is
\* discarded whatever its confidence.
C14_LowConfidenceResetsWindow ==
    [][/\ (EventRuns /\ now' - lastNavigationRef >= LOCK_DURATION)
           => lastNavigationRef' = now'
       /\ (EventRuns /\ lastEvent.some /\ lastEvent.passed
              /\ now' - lastEvent.at < LOCK_DURATION)
           => (NothingDone /\ lastNavigationRef' = lastNavigationRef)]_vars

C14_Witness ==
    /\ lastEvent.some /\ lastEvent.passed /\ lastEvent.at = now
    /\ lastNavigationRef = now /\ ~effectPending
    /\ deckRef = "live" /\ ~showDialog /\ lastAction = "none"
    /\ position = 0
    /\ lastMessage = <<[predicted_class |-> "two_up_inverted",
                        direction |-> "Left", confidence |-> 50]>>

\* this step runs the effect for an event that passes the lock gate and the
\* confidence gate
Accepted ==
    /\ EventRuns
    /\ now' - lastNavigationRef >= LOCK_DURATION
    /\ ~(lastMessage[1].confidence # Missing
         /\ lastMessage[1].confidence < CONFIDENCE_THRESHOLD)

\* C15: with a live deck and the dialog closed an accepted "stop" opens the
\* dialog; with the dialog open and a preview shown an accepted "like"
\* closes the dialog and exits the preview (the deck is destroyed); with the
\* dialog open an accepted "stop" closes it, leaves the preview and the deck
\* as they are and does not open it again.
C15_DialogTransitions ==
    [][/\ (Accepted /\ ~showDialog /\ deckRef = "live"
              /\ lastMessage[1].predicted_class = "stop")
           => (showDialog' /\ fileURL' = fileURL /\ deckRef' = deckRef
               /\ position' = position)
       /\ (Accepted /\ showDialog /\ fileURL
              /\ lastMessage[1].predicted_class = "like")
           => (~showDialog' /\ ~fileURL' /\ deckRef' # "live" /\ ~crashed')
       /\ (Accepted /\ showDialog
              /\ lastMessage[1].predicted_class = "stop")
           => (~showDialog' /\ fileURL' = fileURL /\ deckRef' = deckRef
               /\ position' = position /\ ~crashed')]_vars

C15_Witness ==
    /\ lastAction = "confirmExit" /\ ~showDialog /\ ~fileURL /\ ~crashed
    /\ deckRef = "destroyed" /\ ~effectPending
    /\ lastEvent.passed /\ prevEvent.passed
    /\ lastMessage = <<[predicted_class |-> "like", direction |-> "",
                        confidence |-> CONFIDENCE_THRESHOLD]>>

\* the deck is absent, or it answered isReady() with false in this step
DeckUnavailable == deckRef = "null" \/ lastAction' = "notReady"

Rescheduled ==
    /\ frameCount' = frameCount + 1
    /\ animationIdRef' = frameCount'
    /\ animationIdRef' \in frames'

\* this step passed no timestamp to the detector and emitted nothing
NoDetection ==
    /\ iteration'.result = "skipped" /\ iteration'.emitted = "none"
    /\ lastTimestampMsRef' = lastTimestampMsRef
    /\ runTimestamps' = runTimestamps
    /\ lastEmitted' = lastEmitted

\* C21: the correction maps Left to Right and Right to Left, twice applied
\* it returns Left and Right unchanged, and the handedness of every emitted
\* message is Left or Right, whatever category name the detector returned.
C21_HandednessFlip ==
    /\ Flip("Left") = "Right" /\ Flip("Right") = "Left"
    /\ \A h \in {"Left", "Right"} : Flip(Flip(h)) = h
    /\ iteration.emitted \in {"none", "Left", "Right"}
    /\ lastEmitted \in {"none", "Left", "Right"}
    /\ iteration.emitted # "none" =>
           /\ iteration.result = "Left" => iteration.emitted = "Right"
           /\ iteration.result = "Right" => iteration.emitted = "Left"
           /\ lastEmitted = iteration.emitted

C21_Witness ==
    /\ iteration.some /\ iteration.result = "Unknown"
    /\ iteration.emitted = "Left" /\ onLandmarksRef

\* C22: a run of processFrame calls the detector only if the playback
\* position differs from lastVideoTimeRef; a run with the same position
\* schedules the next run, calls no detector, emits nothing and leaves
\* lastTimestampMsRef and lastVideoTimeRef as they were.
C22_FrameDedup ==
    [][iteration'.some =>
          /\ iteration'.result # "skipped" => iteration'.fresh
          /\ ~iteration'.fresh =>
                 (NoDetection /\ Rescheduled
                  /\ lastVideoTimeRef' = lastVideoTimeRef)]_vars

C22_Witness ==
    /\ iteration.some /\ iteration.ready /\ ~iteration.fresh
    /\ iteration.result = "skipped"
    /\ Len(runTimestamps) = 1 /\ animationIdRef \in frames

\* C23: a run of processFrame emits only if the detection has a hand and a
\* subscriber is registered; a run whose detection has no hand emits
\* nothing and leaves the last emitted message as it was.
C23_EmitsOnlyHands ==
    [][iteration'.some =>
          /\ iteration'.emitted # "none" =>
                 /\ iteration'.result \in {"Left", "Right", "Unknown"}
                 /\ onLandmarksRef
          /\ iteration'.result = "none" =>
                 /\ iteration'.emitted = "none"
                 /\ lastEmitted' = lastEmitted]_vars

C23_Witness ==
    /\ iteration.some /\ iteration.result = "none"
    /\ iteration.emitted = "none" /\ onLandmarksRef
    /\ lastEmitted = "Right"

\* C27: no exception leaves a run of processFrame, and every run schedules
\* the next one.
C27_LoopSurvivesExceptions ==
    iteration.some => (~iteration.threw /\ animationIdRef \in frames)

\* the detector is initialized, the video element exists and the loop may
\* still schedule callbacks
LoopReady ==
    /\ mounted /\ handLandmarker /\ videoRef
    /\ frameCount < MaxFrames

\* the last step called the detector
Detected == iteration.some /\ iteration.result # "skipped"

\* C24: a run of processFrame that finds the detector missing or the video
\* not ready schedules the next run, calls no detector and emits nothing;
\* and while the detector and the video stay ready and the position
\* advances, a detection call eventually happens.
C24_PollsUntilReady ==
    /\ [][(iteration'.some /\ ~iteration'.ready)
             => (NoDetection /\ Rescheduled)]_vars
    /\ (LoopReady ~> (Detected \/ ~LoopReady))

C24_Witness ==
    /\ iteration.some /\ ~iteration.ready /\ iteration.fresh
    /\ handLandmarker /\ animationIdRef \in frames
    /\ frameCount = 2

\* C32: every timestamp handed to the detector is greater than the one
\* handed to it before, over the whole life of the detector and so also
\* after a change of the input stream has reset lastTimestampMsRef.
C32_DetectorTimestampsIncrease ==
    [][(iteration'.some /\ iteration'.result # "skipped")
           => lastTimestampMsRef' > detectorLast]_vars

\* C36: subscribeToLandmarks makes its callback the only registered one,
\* and the unsubscribe function of a callback that was replaced leaves the
\* later callback registered.
C36_StaleUnsubscribeKeepsSubscriber ==
    [][/\ subscriptions' # subscriptions => callback' = subscriptions'
       /\ \A k \in 1..subscriptions :
              (Unsubscribe(k) /\ callback \notin {0, k})
                  => callback' = callback]_vars

\* C13: at most one detection loop is active: never more than one
\* processFrame callback is scheduled, also when the input stream changed
\* before the initialization promise resolved.
C13_OneLoop == Cardinality(frames) <= 1

\* C19: the initialization is started at most once, by the first call of
\* initHandLandmarker(); every later call, before or after the promise
\* settles, from this hook or from another instance, finds the stored
\* promise, which is never replaced by a new one.
C19_InitializedOnce ==
    [][/\ creations' <= 1
       /\ handLandmarkerReadyPromise # "null" =>
              /\ creations' = creations
              /\ handLandmarkerReadyPromise' # "null"
              /\ handLandmarkerReadyPromise \in {"resolved", "rejected"}
                     => handLandmarkerReadyPromise'
                            = handLandmarkerReadyPromise]_vars

C19_Witness ==
    /\ creations = 1 /\ handLandmarkerReadyPromise = "pending"
    /\ starters = 2 /\ mounted /\ inputStream # 0

\* ------------------------------------------------------------------------
\* Claims about the thin-client provider, checked under SpecThin
\* ------------------------------------------------------------------------

\* the provider's socket has closed, no timer is pending, no effect is due
ProviderQuiescent ==
    /\ wsRef # 0 /\ providerSockets[wsRef] = "CLOSED"
    /\ providerTimers = {}
    /\ effectDeps = <<stream, reconnectTrigger>>

\* C10: after an OPEN channel dropped with a stream connected and every
\* reconnect failed, MAX_RECONNECT_ATTEMPTS reconnect attempts were made.
C10_ThreeAttempts ==
    (providerEpisode.clean /\ stream # 0 /\ ProviderQuiescent)
    => providerEpisode.attempts = MAX_RECONNECT_ATTEMPTS

\* ------------------------------------------------------------------------
\* Claims about the thin-client frame producer, checked under SpecFrames
\* ------------------------------------------------------------------------

\* the socket of wsRef is OPEN
ProviderOpen == wsRef # 0 /\ providerSockets[wsRef] = "OPEN"

C30_TickCatchesExceptions ==
    [][lastTick'.some =>
           /\ ~lastTick'.escaped
           /\ lastTick'.failure # "none" =>
                  /\ UNCHANGED <<intervals, frameIntervalRef>>
                  /\ framesSent' = framesSent
           /\ (ProviderOpen /\ lastTick'.failure = "none") =>
                  framesSent' = framesSent + 1
      ]_vars

\* a frame sent by a tick that came after a tick whose operation raised
C30_Witness ==
    /\ failed
    /\ lastTick.some /\ lastTick.sent
    /\ intervals # {}

\* C37: at most one capture interval is set and not cleared, and
\* frameIntervalRef holds its handle.
C37_OneCaptureInterval ==
    /\ Cardinality(intervals) <= 1
    /\ \A i \in intervals : frameIntervalRef = i


\* C38: the exit dialog is open only while a preview is shown, so that
\* leaving the preview, by the Exit Preview button too, leaves it closed.
C38_DialogOnlyInPreview == showDialog => fileURL

\* C39: a PredictionEvent whose effect run commands the deck, changes the
\* dialog or exits the preview carries a confidence, and one at or above
\* CONFIDENCE_THRESHOLD.
C39_TriggersCarryConfidence ==
    [][(EventRuns /\ lastAction' \in {"next", "prev", "openDialog",
                                       "closeDialog", "confirmExit"})
       => /\ lastMessage[1].confidence # Missing
          /\ lastMessage[1].confidence >= CONFIDENCE_THRESHOLD]_vars

\* ------------------------------------------------------------------------
\* Claims about the peer-to-peer provider, checked under SpecSignaling
\* ------------------------------------------------------------------------

\* the handshake h has left the try block through the catch block
HandshakeFailed(h) == handshakes[h].step = "failed"

\* C31 as stated: every call of connectStream has its own handshake, so
\* that, the setup effect having run, there are as many handshakes as calls
C31_HandshakePerConnectStream ==
    peerDeps = peerStream => Len(handshakes) = connectCalls

\* C31: a handshake is started by a run of the setup effect for a stream
\* that a call of connectStream changed, one at most per run; a handshake
\* issues its POST once at most, at the first of the end of gathering and
\* the timeout, and has issued it when it continues after the wait; when
\* a handshake fails isConnected is false, and no other handshake starts
\* without a call of connectStream.
C31_HandshakePostsOnce ==
    [][ /\ \A h \in DOMAIN handshakes' :
               LET x == handshakes'[h]
               IN  /\ x.posts <= 1
                   /\ x.posts = 1 <=> x.resolvedBy # "none"
                   /\ x.step \in {"post", "answer", "done"} => x.posts = 1
                   /\ x.step \in {"offer", "gathering"} => x.posts = 0
        /\ \A h \in DOMAIN handshakes :
               /\ h \in DOMAIN handshakes'
               /\ handshakes'[h].posts > handshakes[h].posts =>
                      /\ handshakes[h].step = "gathering"
                      /\ \/ GatheringComplete(h)
                         \/ GatheringTimeout(h)
               /\ (handshakes'[h].step = "failed" /\ ~HandshakeFailed(h)) =>
                      ~peerIsConnected'
        /\ Len(handshakes') > Len(handshakes) =>
               /\ Len(handshakes') = Len(handshakes) + 1
               /\ connectCalls > served
               /\ peerStream # peerDeps
               /\ handshakes'[Len(handshakes')].stream = peerStream
               /\ handshakes'[Len(handshakes')].step = "failed" =>
                      ~peerIsConnected'
      ]_vars

\* two calls of connectStream, a handshake that failed after its POST and
\* one that succeeded after the timer and the end of gathering both came
C31_Witness ==
    /\ connectCalls >= 2
    /\ \E h \in DOMAIN handshakes :
           /\ HandshakeFailed(h)
           /\ handshakes[h].posts = 1
    /\ \E h \in DOMAIN handshakes :
           /\ handshakes[h].step = "done"
           /\ handshakes[h].posts = 1
           /\ ~handshakes[h].gatheringPending
           /\ ~handshakes[h].timerPending
    /\ peerIsConnected

====
